---- MODULE Spec2Model ----
(***************************************************************************)
(* Model of the Hama3 spectrometer acquisition driver                      *)
(* (src/drivers/hama3_spectrometer.py, helpers of src/drivers/             *)
(* spectrometer.py).                                                       *)
(*                                                                         *)
(* Three kinds of thread act on one Hama3_Spectrometer instance:           *)
(*   - the controlling thread(s): connect, measure, abort,                 *)
(*     wait_for_measurement, disconnect;                                   *)
(*   - the capture thread  (data_arrival_watchdog -> measure_blocking);    *)
(*   - the reduction thread (data_handling_watchdog -> handle_cycle_data). *)
(* The transport (DcIc dll) is modelled in its real (non simulated) mode:  *)
(* a capture may succeed with any data, fail, or be cut short by docatch.  *)
(* The simulated transport is the case in which every capture delivers     *)
(* good cycles.                                                            *)
(*                                                                         *)
(* Specifications:                                                         *)
(*   Spec      one session: measure, abort, wait_for_measurement; good,    *)
(*             saturated and invalid cycles; no transport failure;         *)
(*   FaultSpec one session without abort, with failing transport calls;    *)
(*   LifeSpec  connect / measure / disconnect in any order, good cycles;   *)
(*   SplitSpec split_cycles alone, one loop iteration per step;            *)
(*   DriverSpec one session with failing transport calls and the capture   *)
(*             loop of SpectrometerDriver (spectrometer.py), which gives   *)
(*             up at the first failed pack;                                *)
(*   TimingSpec compute_st_pulses of both revisions, for every requested   *)
(*             integration time, and again for a slightly longer one;      *)
(*   SetItSpec connect's set_it(min_it_ms) followed by one set_it of any   *)
(*             requested integration time;                                 *)
(*   RecoverySpec sessions with recovery(ntry, dofree), connect and        *)
(*             disconnect with every outcome, and a second instance that   *)
(*             registers and unregisters on the same dll;                  *)
(*   RaiseSpec one session in which a dll call may raise inside            *)
(*             measure_pack and inside set_it;                             *)
(*   AbortSpec one session in which abort() of both revisions is called    *)
(*             with every ignore_errors / disable_docatch and every        *)
(*             outcome of DcIc_Abort;                                      *)
(*   RegSpec   connect's set_it(min_it_ms), a set_it of the shortest or    *)
(*             longest accepted time, then a set_it of any time with any   *)
(*             number of register writes accepted;                         *)
(*   NotifySpec one session of good cycles, aborts and failing packs in    *)
(*             which the parent module gives and clears the Event and      *)
(*             sets and resets the recovering flag;                        *)
(*   SplitAnySpec split_cycles with any max_ncy_per_meas and total, zero   *)
(*             and negative values included;                               *)
(*   ProbeSpec the device search of connect() over every list of           *)
(*             enumerated devices and every answer of each device.         *)
(***************************************************************************)
EXTENDS Integers, Sequences, FiniteSets, TLC

\* ---------------------------------------------------------------- bounds
MaxNcy == 3          \* largest cycle count passed to measure()
MaxPack == 2         \* largest configured max_ncy_per_meas
MaxRequests == 2     \* measure() calls in one behaviour
MaxAborts == 1       \* abort() calls from the controlling thread
MaxConnects == 2     \* connect() calls in one behaviour
MaxFaults == 3       \* failing transport calls in one behaviour
MaxBadCycles == 1    \* saturated / invalid cycles delivered in one behaviour
NPix == 2            \* npix_active of the modelled detector (4096 in the source)
nbits == 4           \* A/D bits of the modelled detector (16 in the source)
MaxTotal == 9        \* largest total given to split_cycles (SplitSpec)
MaxPer == 4          \* largest max_ncy_per_meas given to split_cycles (SplitSpec)
RegBits == 15        \* width of the DWORD registers (32 in the source)
max_it_ms == 3       \* configured maximum integration time, ms (4000.0 in the source)
MaxStride == 2       \* largest step between two requested times that are compared
MaxTry == 3          \* largest ntry passed to recovery() (its default is 3)
MaxIter == 12        \* iterations of the split_cycles loop that are followed (SplitAnySpec)
MaxDevs == 3         \* largest number of devices that the dll enumerates

\* ------------------------------------------------------ program constants
ntry_per_call == 3               \* retries per measurement call
NoneVal == 0 - 1                 \* the None sentinel of both queues
NaN == 0 - 99                    \* a not-a-number count

RECURSIVE Pow2(_)
Pow2(n) == IF n = 0 THEN 1 ELSE 2 * Pow2(n - 1)

eff_saturation_limit == Pow2(nbits) - 1

Min2(a, b) == IF a < b THEN a ELSE b

clock_frequency_mhz == 10

\* A requested time it_ms is kept as the integer it = it_ms * HalfClkPerMs, a
\* number of half clock periods, so that the ties of round() are there.
\* (The float error of it_ms / 1000.0 * f_clk is left out.)
HalfClkPerMs == 2 * clock_frequency_mhz * 1000

min_it_ms == (24 * HalfClkPerMs) \div 10          \* 2.4 ms

max_it == max_it_ms * HalfClkPerMs

\* ------------------------------------------------------------ split_cycles
\* A faulty loop iteration, which gives up after the first pack; C9 must
\* tell it from SplitIter.
SplitIterMutantShort(st, max_ncy_per_meas) ==
    LET pack_size == Min2(st.ncy, max_ncy_per_meas)
    IN  [packs |-> Append(st.packs, pack_size), ncy |-> 0]

\* One iteration of the while loop of split_cycles: st = [packs, ncy].
SplitIter(st, max_ncy_per_meas) ==
    LET pack_size == Min2(st.ncy, max_ncy_per_meas)
    IN  [packs |-> Append(st.packs, pack_size), ncy |-> st.ncy - pack_size]

RECURSIVE SplitLoop(_, _)
SplitLoop(st, max_ncy_per_meas) ==
    IF st.ncy > 0 THEN SplitLoop(SplitIter(st, max_ncy_per_meas), max_ncy_per_meas)
    ELSE st.packs

\* split_cycles(max_ncy_per_meas, ncy): the list of packs (the info string is
\* only logged and is left out).
split_cycles(max_ncy_per_meas, ncy) ==
    IF ncy <= 0 THEN <<>> ELSE SplitLoop([packs |-> <<>>, ncy |-> ncy], max_ncy_per_meas)

RECURSIVE SumSeq(_)
SumSeq(s) == IF s = <<>> THEN 0 ELSE Head(s) + SumSeq(Tail(s))

\* ------------------------------------------------------------ cycle data
\* A cycle is a vector of NPix counts.  The transport delivers good cycles,
\* and cycles with a saturated pixel, a negative pixel, both, or a NaN.
GoodCycle == [p \in 1..NPix |-> 1 + p]
SatCycle == [p \in 1..NPix |-> IF p = 1 THEN eff_saturation_limit ELSE 1 + p]
NegCycle == [p \in 1..NPix |-> IF p = 1 THEN 0 - 1 ELSE 1 + p]
NegSatCycle == [p \in 1..NPix |-> IF p = 1 THEN 0 - 1 ELSE eff_saturation_limit]
NaNCycle == [p \in 1..NPix |-> IF p = 1 THEN NaN ELSE 1 + p]
BadCycles == {SatCycle, NegCycle, NegSatCycle, NaNCycle}

\* numpy max / min of a vector: NaN propagates.
HasNaN(rc) == \E p \in DOMAIN rc : rc[p] = NaN
VecMax(rc) == IF HasNaN(rc) THEN NaN
              ELSE CHOOSE m \in {rc[p] : p \in DOMAIN rc} : \A p \in DOMAIN rc : rc[p] <= m
VecMin(rc) == IF HasNaN(rc) THEN NaN
              ELSE CHOOSE m \in {rc[p] : p \in DOMAIN rc} : \A p \in DOMAIN rc : m <= rc[p]

\* Comparisons with NaN are False.
data_ok_of(rc) ==
    LET rcmax == VecMax(rc)
        rcmin == VecMin(rc)
    IN  IF rcmin # NaN /\ rcmin < 0 THEN FALSE
        ELSE IF rcmax = NaN \/ rcmin = NaN THEN FALSE
        ELSE TRUE

issat_of(rc) ==
    LET rcmax == VecMax(rc)
    IN  rcmax # NaN /\ rcmax >= eff_saturation_limit

Zeros == [p \in 1..NPix |-> 0]

\* np.split(flat, n) of the flattened pack: n equal parts, in order.
RECURSIVE Flatten(_)
Flatten(cycles) == IF cycles = <<>> THEN <<>> ELSE Head(cycles) \o Flatten(Tail(cycles))

NpSplit(flat, n) ==
    LET k == Len(flat) \div n
    IN  [j \in 1..n |-> SubSeq(flat, (j - 1) * k + 1, j * k)]

\* All packs of n cycles with at most `bad` cycles that are not good.
RECURSIVE PackData(_, _)
PackData(n, bad) ==
    IF n = 0 THEN {<<>>}
    ELSE {<<GoodCycle>> \o t : t \in PackData(n - 1, bad)}
         \cup (IF bad > 0
               THEN {<<c>> \o t : c \in BadCycles, t \in PackData(n - 1, bad - 1)}
               ELSE {})

RECURSIVE CountBad(_)
CountBad(cycles) ==
    IF cycles = <<>> THEN 0
    ELSE (IF Head(cycles) = GoodCycle THEN 0 ELSE 1) + CountBad(Tail(cycles))

\* ------------------------------------------------------------------ state
VARIABLES
    \* configuration (fixed in a behaviour)
    abort_on_saturation, max_ncy_per_meas,
    \* fields of Hama3_Spectrometer
    data_arrival_watchdog_thread, data_handling_watchdog_thread,
    read_data_queue, handle_data_queue,
    docatch, measuring, error, internal_meas_done_event,
    ncy_requested, ncy_per_meas, ncy_read, ncy_handled, ncy_saturated,
    sy, syy, sxy, arrival_times, rcm, rcs, rcl,
    \* transport
    spec_open, capture_outstanding,
    \* capture thread: position and locals of data_arrival_watchdog / measure_blocking
    arrPc, arr,
    \* reduction thread: position and locals of data_handling_watchdog
    hndPc, hnd,
    \* controlling threads: wait_for_measurement and disconnect
    waitPc, wait_result, discPc,
    \* history
    hist,
    \* split_cycles run step by step (SplitSpec)
    sp,
    \* integration time: the time currently set, and the latest call of
    \* compute_st_pulses / set_it (TimingSpec, SetItSpec)
    it_ms, tm,
    \* the module-wide registry of connected instances (this instance is
    \* "self", a second Hama3_Spectrometer object is "other"), the dll session
    \* of the process (DcIc_Initialize .. DcIc_Terminate), dll_handler of this
    \* instance, the recovering flag, the value returned by the latest abort()
    \* call of a controlling thread, and the position and locals of recovery();
    \* external_meas_done_event: "None", or the Event given by the parent
    \* module, "clear" or "set"; Hama3_devs_info: the module-wide record of the
    \* devices probed so far (device index -> serial number); probe: the
    \* position and locals of the device search of connect()
    Hama3_Spectrometer_Instances, dll_handler, dll_session, recovering, external_meas_done_event, abort_ret, Hama3_devs_info, probe, rec

cfgVars == <<abort_on_saturation, max_ncy_per_meas>>
threadVars == <<data_arrival_watchdog_thread, data_handling_watchdog_thread>>
accVars == <<ncy_read, ncy_handled, ncy_saturated, sy, syy, sxy, arrival_times>>
resVars == <<rcm, rcs, rcl>>
vars == <<abort_on_saturation, max_ncy_per_meas,
          data_arrival_watchdog_thread, data_handling_watchdog_thread,
          read_data_queue, handle_data_queue,
          docatch, measuring, error, internal_meas_done_event,
          ncy_requested, ncy_per_meas, ncy_read, ncy_handled, ncy_saturated,
          sy, syy, sxy, arrival_times, rcm, rcs, rcl,
          spec_open, capture_outstanding,
          arrPc, arr, hndPc, hnd, waitPc, wait_result, discPc, hist, sp, it_ms, tm,
          Hama3_Spectrometer_Instances, dll_handler, dll_session, recovering, external_meas_done_event, abort_ret, Hama3_devs_info, probe,
          rec>>
sesVars == <<Hama3_Spectrometer_Instances, dll_handler, dll_session, recovering, external_meas_done_event, abort_ret, Hama3_devs_info, probe,
          rec>>

\* The pipeline: configuration, fields but error, threads, transport, history.
workVars == <<abort_on_saturation, max_ncy_per_meas,
              data_arrival_watchdog_thread, data_handling_watchdog_thread,
              read_data_queue, handle_data_queue,
              docatch, measuring, internal_meas_done_event,
              ncy_requested, ncy_per_meas, ncy_read, ncy_handled, ncy_saturated,
              sy, syy, sxy, arrival_times, rcm, rcs, rcl,
              spec_open, capture_outstanding,
              arrPc, arr, hndPc, hnd, waitPc, wait_result, discPc, hist, sp>>

\* Everything but the integration time.
pipeVars == <<workVars, sesVars>>

\* The sentinel disconnect() puts into handle_data_queue.
HandleSentinel == [call_index |-> NoneVal, rc |-> <<>>, req |-> 0]

ArrLocals0 == [ncy |-> 0, call_index |-> 0, attempt |-> 0, res |-> "OK"]
HndLocals0 == [cur |-> HandleSentinel, rc |-> <<>>, i |-> 0]

\* History kept for the claims (no effect on the program).
Hist0 == [n_measure |-> 0,   \* measure() calls
          n_abort |-> 0,     \* abort() calls of the controlling thread
          n_connect |-> 0,   \* connect() calls
          n_fault |-> 0,     \* failed transport calls
          n_bad |-> 0,       \* saturated / invalid cycles delivered
          req |-> 0,         \* requests started by measure_blocking
          clean |-> FALSE,   \* fresh session; since then requests issued one after
                             \* the other, no abort, no fault, no bad cycle
          scen_n |-> 0,      \* cycle count of the latest measure() (while clean)
          ready |-> FALSE,   \* the first measure() found both loops running
          sat_stop |-> FALSE, \* the request was ended by a saturated, valid cycle
          discarded |-> FALSE, \* a dequeued pack of the request was ignored
          npix_error |-> FALSE, \* the latest connect() reported a pixel-count mismatch
          ys |-> <<>>,       \* the cycles accumulated since reset_spec_data()
          cancelled |-> FALSE,  \* the request in the capture loop was cancelled
          remeasured |-> FALSE, \* measure() was called after that cancellation
          cleared |-> FALSE,    \* and it cleared the event of the cancelled request
          queued_cancelled |-> 0, \* requests at the head of read_data_queue that were
                                  \* there at an abort() which no measure() has followed
          precancelled |-> FALSE] \* the request taken from the queue was one of them

SplitIdle == [pc |-> "idle", max |-> 1, total |-> 0, st |-> [packs |-> <<>>, ncy |-> 0]]

\* recovery() not called.  i: the loop index; log: how each finished pass of
\* the loop went.
RecoveryIdle == [pc |-> "idle", i |-> 0, ntry |-> 0, dofree |-> FALSE,
                 res |-> "NOK", log |-> <<>>,
                 calls |-> <<>>]   \* the calls made by recovery(): <<pass, call and result>>

\* abort() not called by a controlling thread.  Else: the arguments of the
\* latest call, what the transport did with DcIc_Abort, and the value returned.
AbortNone == [called |-> FALSE, ignore_errors |-> FALSE, disable_docatch |-> TRUE,
              outcome |-> "ok", res |-> "OK"]

\* The device search of connect() not started.  devs: the devices that the
\* dll enumerates, each with its serial number and with what it answers to
\* DcIc_Connect and to get_dev_info; i: the loop index; res, dev_index and
\* spec_id: the locals of connect().
ProbeIdle == [pc |-> "idle", devs |-> <<>>, i |-> 0, res |-> "OK", dev_index |-> NoneVal,
              spec_id |-> 0, calls |-> 0]

\* No call of compute_st_pulses / set_it made yet.
TimingIdle == [pc |-> "idle", it |-> 0, res |-> "OK",
               high_period |-> 0, low_period |-> 0, line_cycle |-> 0,
               has_prev |-> FALSE, prev_it |-> 0, prev_high |-> 0,
               thp_st |-> 0, tpi_st |-> 0, writes |-> <<>>, ret |-> "none",
               \* the registers of the device (NoneVal: not written since power
               \* on), their values after each accepted write of the latest
               \* set_it, and the number of accepted writes
               dev |-> [thp |-> NoneVal, tpi |-> NoneVal], trail |-> <<>>,
               accepted |-> 0]

\* State after Hama3_Spectrometer.__init__ (with given configuration).
InitFields ==
    /\ data_arrival_watchdog_thread = "None"
    /\ data_handling_watchdog_thread = "None"
    /\ read_data_queue = <<>>
    /\ handle_data_queue = <<>>
    /\ docatch = FALSE
    /\ measuring = FALSE
    /\ error = "OK"
    /\ internal_meas_done_event = FALSE
    /\ ncy_requested = 0
    /\ ncy_per_meas = <<1>>
    /\ ncy_read = 0
    /\ ncy_handled = 0
    /\ ncy_saturated = 0
    /\ sy = Zeros /\ syy = Zeros /\ sxy = Zeros
    /\ arrival_times = 0
    /\ rcm = <<>> /\ rcs = <<>> /\ rcl = <<>>
    /\ spec_open = FALSE
    /\ capture_outstanding = FALSE
    /\ arrPc = "none" /\ arr = ArrLocals0
    /\ hndPc = "none" /\ hnd = HndLocals0
    /\ waitPc = "idle" /\ wait_result = "none" /\ discPc = "idle"
    /\ hist = Hist0

Init ==
    /\ abort_on_saturation \in BOOLEAN
    /\ max_ncy_per_meas \in 1..MaxPack
    /\ InitFields
    /\ sp = SplitIdle
    /\ it_ms = <<>>
    /\ tm = TimingIdle
    /\ Hama3_Spectrometer_Instances = {}
    /\ dll_handler = "None"
    /\ dll_session = FALSE
    /\ recovering = FALSE
    /\ external_meas_done_event = "None"
    /\ Hama3_devs_info = <<>>
    /\ probe = ProbeIdle
    /\ abort_ret = AbortNone
    /\ rec = RecoveryIdle

\* threading.Event.set(): the flag is set and every thread blocked in wait()
\* is released (it returns even if the flag is cleared again afterwards).
WakeArr(pc) == IF pc = "mb_blocked" THEN "mb_final" ELSE pc
WakeWait(pc) == IF pc = "blocked" THEN "woken" ELSE pc

\* --------------------------------------------------- controlling thread
CallerFree == waitPc = "idle" /\ discPc = "idle" /\ rec.pc \in {"idle", "done"}

\* Every earlier request has reached its end.
NoRequestPending ==
    /\ read_data_queue = <<>>
    /\ hist.n_measure = 0 \/ internal_meas_done_event

Unclean(h) == [h EXCEPT !.clean = FALSE, !.scen_n = 0]

\* The capture thread is in the call_index loop of measure_blocking.
InCaptureLoop == arrPc \in {"loop", "wait_data"}

\* Both worker threads have entered their loops.
WorkersRunning == arrPc \notin {"none", "drain"} /\ hndPc \notin {"none", "drain"}

\* connect(): reset_spec_data(), the transport steps, then the two threads
\* are started if they do not exist.  outcome: where the transport steps end:
\*   "fail_early"  before a device handle is opened (the dll is not loaded);
\*   "npix"        DcIc_GetHorizontalPixel reports another pixel count than
\*                 npix_active;
\*   "fail_late"   a later step fails (vertical pixels, gains, set_it,
\*                 DcIc_SetDataTimeout);
\*   "ok"          every step succeeds.
\* From DcIc_Connect on the handle is open and the instance is registered.
connect_call(outcome) ==
    \* reset_spec_data()
    /\ read_data_queue' = <<>>
    /\ handle_data_queue' = <<>>
    /\ ncy_read' = 0 /\ ncy_handled' = 0 /\ ncy_saturated' = 0
    /\ sy' = Zeros /\ syy' = Zeros /\ sxy' = Zeros
    /\ arrival_times' = 0
    \* DcIc_Connect, abort(ignore_errors=True), pixel checks, set_it
    /\ spec_open' = IF outcome = "fail_early" THEN spec_open ELSE TRUE
    /\ docatch' = IF outcome = "fail_early" THEN docatch ELSE FALSE
    /\ dll_handler' = IF outcome = "fail_early" THEN dll_handler ELSE "CDLL"
    /\ dll_session' = IF outcome = "fail_early" THEN dll_session ELSE TRUE
    /\ Hama3_Spectrometer_Instances' =
           IF outcome = "fail_early" THEN Hama3_Spectrometer_Instances
           ELSE Hama3_Spectrometer_Instances \cup {"self"}
    /\ error' = IF outcome = "ok" THEN "OK" ELSE IF outcome = "npix" THEN "NPIX" ELSE "ERR"
    \* set_it(min_it_ms), the last but one of the transport steps
    /\ it_ms' = IF outcome = "ok" THEN <<min_it_ms>> ELSE it_ms
    /\ IF outcome = "ok" /\ data_arrival_watchdog_thread = "None"
       THEN data_arrival_watchdog_thread' = "Thread" /\ arrPc' = "drain" /\ arr' = ArrLocals0
       ELSE UNCHANGED <<data_arrival_watchdog_thread, arrPc, arr>>
    /\ IF outcome = "ok" /\ data_handling_watchdog_thread = "None"
       THEN data_handling_watchdog_thread' = "Thread" /\ hndPc' = "drain" /\ hnd' = HndLocals0
       ELSE UNCHANGED <<data_handling_watchdog_thread, hndPc, hnd>>
    /\ hist' = IF /\ outcome = "ok"
                  /\ data_arrival_watchdog_thread = "None"
                  /\ data_handling_watchdog_thread = "None"
                  /\ hist.n_measure = 0
               THEN [hist EXCEPT !.n_connect = @ + 1, !.clean = TRUE,
                                 !.npix_error = FALSE, !.ys = <<>>]
               ELSE Unclean([hist EXCEPT !.n_connect = @ + 1,
                                         !.npix_error = (outcome = "npix"),
                                         !.ys = <<>>])
    /\ UNCHANGED <<cfgVars, measuring, internal_meas_done_event, ncy_requested,
                   ncy_per_meas, resVars, capture_outstanding, waitPc, wait_result,
                   discPc, sp, tm, recovering, external_meas_done_event, abort_ret, Hama3_devs_info, probe>>

connect(outcome) ==
    /\ CallerFree
    /\ hist.n_connect < MaxConnects
    /\ connect_call(outcome)
    /\ UNCHANGED rec

\* measure(ncy): non blocking; clears the event, sets the flags, queues ncy.
measure(ncy) ==
    /\ CallerFree
    /\ hist.n_measure < MaxRequests
    /\ internal_meas_done_event' = FALSE
    /\ measuring' = TRUE
    /\ docatch' = TRUE
    /\ error' = "OK"
    /\ read_data_queue' = Append(read_data_queue, ncy)
    /\ wait_result' = "none"
    /\ hist' = LET h == [hist EXCEPT !.n_measure = @ + 1,
                                      !.ready = IF hist.n_measure = 0
                                                THEN WorkersRunning ELSE @,
                                      !.queued_cancelled = 0,
                                      !.remeasured = @ \/ (hist.cancelled /\ InCaptureLoop),
                                      !.cleared = @ \/ (/\ hist.cancelled
                                                         /\ InCaptureLoop
                                                         /\ internal_meas_done_event)]
               IN  IF hist.clean /\ NoRequestPending
                   THEN [h EXCEPT !.scen_n = ncy]
                   ELSE Unclean(h)
    /\ UNCHANGED <<cfgVars, threadVars, handle_data_queue, ncy_requested, ncy_per_meas,
                   accVars, resVars, spec_open, capture_outstanding, arrPc, arr,
                   hndPc, hnd, waitPc, discPc, sp, it_ms, tm, sesVars>>

\* abort() with its default arguments (ignore_errors=False,
\* disable_docatch=True), the returned value being read from error: clears
\* docatch, sends DcIc_Abort (which may fail).
abort(ok) ==
    /\ hist.n_abort < MaxAborts
    /\ docatch' = FALSE
    /\ error' = IF ok THEN "OK" ELSE "ERR"
    /\ hist' = Unclean([hist EXCEPT !.n_abort = @ + 1,
                                    !.cancelled = @ \/ InCaptureLoop,
                                    !.queued_cancelled = Len(read_data_queue)])
    /\ UNCHANGED <<cfgVars, threadVars, read_data_queue, handle_data_queue, measuring,
                   internal_meas_done_event, ncy_requested, ncy_per_meas, accVars,
                   resVars, spec_open, capture_outstanding, arrPc, arr, hndPc, hnd,
                   waitPc, wait_result, discPc, sp, it_ms, tm, sesVars>>

\* A faulty result, which reports an error in spite of ignore_errors; C26 must
\* tell it from abort_result.
abort_resultMutantStrict(ignore_errors, outcome) ==
    IF outcome = "ok" THEN "OK" ELSE "ERR"

\* What abort() returns when DcIc_Abort succeeds ("ok"), returns an error
\* ("fail") or raises ("raise"): both the error and the exception, which is
\* caught, become a message, or "OK" with ignore_errors.
abort_result(ignore_errors, outcome) ==
    IF outcome = "ok" THEN "OK"
    ELSE IF ignore_errors THEN "OK" ELSE "ERR"

\* abort(ignore_errors, log, disable_docatch) with its three arguments.
\* Without a loaded dll the call on dll_handler raises an AttributeError.
abort_call(ignore_errors, disable_docatch, outcome) ==
    /\ hist.n_abort < MaxAborts
    /\ dll_handler = "None" => outcome = "raise"
    /\ LET res == abort_result(ignore_errors, outcome)
       IN  /\ docatch' = IF disable_docatch THEN FALSE ELSE docatch
           /\ error' = res
           /\ abort_ret' = [called |-> TRUE, ignore_errors |-> ignore_errors,
                            disable_docatch |-> disable_docatch,
                            outcome |-> outcome, res |-> res]
    /\ hist' = Unclean([hist EXCEPT !.n_abort = @ + 1])
    /\ UNCHANGED <<cfgVars, threadVars, read_data_queue, handle_data_queue, measuring,
                   internal_meas_done_event, ncy_requested, ncy_per_meas, accVars,
                   resVars, spec_open, capture_outstanding, arrPc, arr, hndPc, hnd,
                   waitPc, wait_result, discPc, sp, it_ms, tm,
                   Hama3_Spectrometer_Instances, dll_handler, dll_session, recovering, external_meas_done_event,
                   Hama3_devs_info, probe, rec>>

\* SpectrometerDriver.abort: DcIc_Abort is only sent with a device handle and
\* a loaded dll, and measuring is set to False.
driver_abort_call(ignore_errors, disable_docatch, outcome) ==
    /\ hist.n_abort < MaxAborts
    /\ (dll_handler = "None" \/ ~spec_open) => outcome = "ok"
    /\ LET res == abort_result(ignore_errors, outcome)
       IN  /\ docatch' = IF disable_docatch THEN FALSE ELSE docatch
           /\ measuring' = FALSE
           /\ error' = res
           /\ abort_ret' = [called |-> TRUE, ignore_errors |-> ignore_errors,
                            disable_docatch |-> disable_docatch,
                            outcome |-> outcome, res |-> res]
    /\ hist' = Unclean([hist EXCEPT !.n_abort = @ + 1])
    /\ UNCHANGED <<cfgVars, threadVars, read_data_queue, handle_data_queue,
                   internal_meas_done_event, ncy_requested, ncy_per_meas, accVars,
                   resVars, spec_open, capture_outstanding, arrPc, arr, hndPc, hnd,
                   waitPc, wait_result, discPc, sp, it_ms, tm,
                   Hama3_Spectrometer_Instances, dll_handler, dll_session, recovering, external_meas_done_event,
                   Hama3_devs_info, probe, rec>>

\* wait_for_measurement(): internal_meas_done_event.wait(); return self.error
wait_for_measurement_call ==
    /\ CallerFree
    /\ wait_result = "none"
    /\ IF internal_meas_done_event
       THEN wait_result' = error /\ waitPc' = "idle"
       ELSE wait_result' = "none" /\ waitPc' = "blocked"
    /\ UNCHANGED <<cfgVars, threadVars, read_data_queue, handle_data_queue, docatch,
                   measuring, error, internal_meas_done_event, ncy_requested,
                   ncy_per_meas, accVars, resVars, spec_open, capture_outstanding,
                   arrPc, arr, hndPc, hnd, discPc, hist, sp, it_ms, tm, sesVars>>

wait_for_measurement_return ==
    /\ waitPc = "woken"
    /\ wait_result' = error
    /\ waitPc' = "idle"
    /\ UNCHANGED <<cfgVars, threadVars, read_data_queue, handle_data_queue, docatch,
                   measuring, error, internal_meas_done_event, ncy_requested,
                   ncy_per_meas, accVars, resVars, spec_open, capture_outstanding,
                   arrPc, arr, hndPc, hnd, discPc, hist, sp, it_ms, tm, sesVars>>

\* disconnect(dofree): deregisters, DcIc_Disconnect and, with dofree,
\* DcIc_Terminate (both only with a loaded dll), then stops and joins the
\* capture thread and after it the reduction thread, each with a sentinel.
disconnect_finish ==
    /\ error' = "OK"
    /\ discPc' = "idle"

disconnect_stop_handling ==
    IF data_handling_watchdog_thread # "None"
    THEN /\ handle_data_queue' = Append(handle_data_queue, HandleSentinel)
         /\ discPc' = "join_handling"
         /\ UNCHANGED error
    ELSE /\ disconnect_finish
         /\ UNCHANGED handle_data_queue

disconnect_call(dofree) ==
    /\ Hama3_Spectrometer_Instances' = Hama3_Spectrometer_Instances \ {"self"}
    /\ spec_open' = IF dll_handler # "None" THEN FALSE ELSE spec_open
    /\ dll_session' = IF dll_handler # "None" /\ dofree THEN FALSE ELSE dll_session
    /\ hist' = Unclean(hist)
    /\ IF data_arrival_watchdog_thread # "None"
       THEN /\ read_data_queue' = Append(read_data_queue, NoneVal)
            /\ discPc' = "join_arrival"
            /\ UNCHANGED <<handle_data_queue, error>>
       ELSE /\ disconnect_stop_handling
            /\ UNCHANGED read_data_queue
    /\ UNCHANGED <<cfgVars, threadVars, docatch, measuring, internal_meas_done_event,
                   ncy_requested, ncy_per_meas, accVars, resVars, capture_outstanding,
                   arrPc, arr, hndPc, hnd, waitPc, wait_result, sp, it_ms, tm,
                   dll_handler, recovering, external_meas_done_event, abort_ret, Hama3_devs_info, probe>>

disconnect(dofree) ==
    /\ CallerFree
    /\ disconnect_call(dofree)
    /\ UNCHANGED rec

\* data_arrival_watchdog_thread.join() has returned.
disconnect_joined_arrival ==
    /\ discPc = "join_arrival"
    /\ arrPc = "exited"
    /\ data_arrival_watchdog_thread' = "None"
    /\ arrPc' = "none"
    /\ disconnect_stop_handling
    /\ UNCHANGED <<cfgVars, data_handling_watchdog_thread, read_data_queue, docatch,
                   measuring, internal_meas_done_event, ncy_requested, ncy_per_meas,
                   accVars, resVars, spec_open, capture_outstanding, arr, hndPc, hnd,
                   waitPc, wait_result, hist, sp, it_ms, tm, sesVars>>

\* data_handling_watchdog_thread.join() has returned (the thread ended, by the
\* sentinel or by an exception).
disconnect_joined_handling ==
    /\ discPc = "join_handling"
    /\ hndPc \in {"exited", "crashed"}
    /\ data_handling_watchdog_thread' = "None"
    /\ hndPc' = "none"
    /\ disconnect_finish
    /\ UNCHANGED <<cfgVars, data_arrival_watchdog_thread, read_data_queue,
                   handle_data_queue, docatch, measuring, internal_meas_done_event,
                   ncy_requested, ncy_per_meas, accVars, resVars, spec_open,
                   capture_outstanding, arrPc, arr, hnd, waitPc, wait_result, hist, sp, it_ms, tm, sesVars>>

\* ------------------------------------------------------------- recovery
\* recovery(ntry, dofree), up to the loop: docatch = False.
recovery_call(ntry, dofree) ==
    /\ CallerFree
    /\ rec.pc = "idle"
    /\ docatch' = FALSE
    /\ rec' = [RecoveryIdle EXCEPT !.pc = IF ntry = 0 THEN "done" ELSE "soft",
                                    !.ntry = ntry, !.dofree = dofree]
    /\ hist' = Unclean(hist)
    /\ UNCHANGED <<cfgVars, threadVars, read_data_queue, handle_data_queue, measuring,
                   error, internal_meas_done_event, ncy_requested, ncy_per_meas,
                   accVars, resVars, spec_open, capture_outstanding, arrPc, arr, hndPc,
                   hnd, waitPc, wait_result, discPc, sp, it_ms, tm,
                   Hama3_Spectrometer_Instances, dll_handler, dll_session, recovering, external_meas_done_event,
                   abort_ret, Hama3_devs_info, probe>>

\* A faulty test, with which the loop never ends early; C21 must tell it
\* from RecoveryBreaks.
RecoveryBreaksMutantNever(res) == FALSE

\* if res == "OK": ... break
RecoveryBreaks(res) == res = "OK"

\* A faulty test, which skips the soft part in every pass with dofree; C31
\* must tell it from SoftSkipped.
SoftSkippedMutantAlways(i, dofree) == dofree

\* if i == 0 and dofree: res = "NOK"
SoftSkipped(i, dofree) == i = 0 /\ dofree

\* One pass of the loop, soft part: abort(ignore_errors=False), skipped in
\* the first pass with dofree, and after an "OK" set_it(self.it_ms).
\* soft: which of the two fails.  Without a loaded dll abort() fails; with
\* it_ms None (no set_it has succeeded) set_it raises a TypeError, which
\* leaves recovery().
recovery_soft(soft) ==
    /\ rec.pc = "soft"
    /\ LET skipped == SoftSkipped(rec.i, rec.dofree)
           res == IF skipped \/ soft # "ok" THEN "ERR" ELSE "OK"
           raises == ~skipped /\ soft # "abort_fail" /\ it_ms = <<>>
           made == IF skipped THEN <<>>
                   ELSE IF soft = "abort_fail" THEN <<<<rec.i, "abort_fail">>>>
                   ELSE IF raises THEN <<<<rec.i, "abort_ok">>>>
                   ELSE <<<<rec.i, "abort_ok">>,
                          <<rec.i, IF soft = "ok" THEN "set_it_ok" ELSE "set_it_fail">>>>
           rec1 == [rec EXCEPT !.calls = @ \o made]
       IN  /\ (skipped \/ dll_handler = "None") => soft = "abort_fail"
           /\ docatch' = IF skipped THEN docatch ELSE FALSE
           /\ error' = IF skipped \/ raises THEN error ELSE res
           /\ rec' = IF raises THEN [rec1 EXCEPT !.pc = "raised"]
                      ELSE IF RecoveryBreaks(res)
                      THEN [rec1 EXCEPT !.pc = "done", !.res = res,
                                        !.log = Append(@, "soft_ok")]
                      ELSE [rec1 EXCEPT !.pc = "hard", !.res = res]
    /\ UNCHANGED <<cfgVars, threadVars, read_data_queue, handle_data_queue, measuring,
                   internal_meas_done_event, ncy_requested, ncy_per_meas,
                   accVars, resVars, spec_open, capture_outstanding, arrPc, arr, hndPc,
                   hnd, waitPc, wait_result, discPc, hist, sp, it_ms, tm,
                   Hama3_Spectrometer_Instances, dll_handler, dll_session, recovering, external_meas_done_event,
                   abort_ret, Hama3_devs_info, probe>>

\* Hard part: disconnect(dofree=dofree_now); reset_device() is not called,
\* since devtype stays None.
recovery_disconnect ==
    /\ rec.pc = "hard"
    /\ disconnect_call(rec.i = 0 /\ rec.dofree)
    /\ rec' = [rec EXCEPT !.pc = "disc", !.calls = Append(@, <<rec.i, "disconnect">>)]

\* disconnect() has returned: connect(); "OK" ends the loop, else the next
\* pass, if any.
recovery_connect(outcome) ==
    /\ rec.pc = "disc"
    /\ discPc = "idle"
    /\ connect_call(outcome)
    /\ LET res == IF outcome = "ok" THEN "OK" ELSE "ERR"
           rec1 == [rec EXCEPT !.calls = Append(@, <<rec.i, IF outcome = "ok"
                                                            THEN "connect_ok"
                                                            ELSE "connect_fail">>)]
       IN  rec' = IF RecoveryBreaks(res)
                  THEN [rec1 EXCEPT !.pc = "done", !.res = res,
                                   !.log = Append(@, "hard_ok")]
                  ELSE IF rec.i + 1 < rec.ntry
                  THEN [rec1 EXCEPT !.pc = "soft", !.res = res, !.i = @ + 1,
                                   !.log = Append(@, IF outcome = "ok" THEN "hard_ok"
                                                     ELSE "hard_fail")]
                  ELSE [rec1 EXCEPT !.pc = "done", !.res = res,
                                   !.log = Append(@, IF outcome = "ok" THEN "hard_ok"
                                                     ELSE "hard_fail")]

\* A second Hama3_Spectrometer object of the process connects and disconnects
\* its own device through the same dll.
other_connect ==
    /\ "other" \notin Hama3_Spectrometer_Instances
    /\ Hama3_Spectrometer_Instances' = Hama3_Spectrometer_Instances \cup {"other"}
    /\ dll_session' = TRUE
    /\ UNCHANGED <<workVars, error, it_ms, tm, dll_handler, recovering, external_meas_done_event, abort_ret, Hama3_devs_info, probe, rec>>

other_disconnect ==
    /\ "other" \in Hama3_Spectrometer_Instances
    /\ Hama3_Spectrometer_Instances' = Hama3_Spectrometer_Instances \ {"other"}
    /\ UNCHANGED <<workVars, error, it_ms, tm, dll_handler, dll_session, recovering, external_meas_done_event,
                   abort_ret, Hama3_devs_info, probe, rec>>

\* ------------------------------------------------------- capture thread
\* data_arrival_watchdog: the queue is emptied when the thread starts.
arrival_start ==
    /\ arrPc = "drain"
    /\ read_data_queue' = <<>>
    /\ arrPc' = "get"
    /\ UNCHANGED <<cfgVars, threadVars, handle_data_queue, docatch, measuring, error,
                   internal_meas_done_event, ncy_requested, ncy_per_meas, accVars,
                   resVars, spec_open, capture_outstanding, arr, hndPc, hnd, waitPc,
                   wait_result, discPc, hist, sp, it_ms, tm, sesVars>>

\* ncy = read_data_queue.get(); None ends the thread.
arrival_get ==
    /\ arrPc = "get"
    /\ read_data_queue # <<>>
    /\ read_data_queue' = Tail(read_data_queue)
    /\ IF Head(read_data_queue) = NoneVal
       THEN arrPc' = "exited" /\ arr' = ArrLocals0
       ELSE arrPc' = "mb_init" /\ arr' = [ArrLocals0 EXCEPT !.ncy = Head(read_data_queue)]
    /\ hist' = [hist EXCEPT !.precancelled = hist.queued_cancelled > 0,
                            !.queued_cancelled = IF @ > 0 THEN @ - 1 ELSE 0]
    /\ UNCHANGED <<cfgVars, threadVars, handle_data_queue, docatch, measuring, error,
                   internal_meas_done_event, ncy_requested, ncy_per_meas, accVars,
                   resVars, spec_open, capture_outstanding, hndPc, hnd, waitPc,
                   wait_result, discPc, sp, it_ms, tm, sesVars>>

\* measure_blocking up to the loop: abort(ignore_errors=True), the event is
\* cleared, measuring = docatch = True, ncy_requested = ncy, reset_spec_data()
\* (both queues emptied, counters and sums zeroed), then the pack list.
measure_blocking_start ==
    /\ arrPc = "mb_init"
    /\ error' = "OK"
    /\ internal_meas_done_event' = FALSE
    /\ measuring' = TRUE
    /\ docatch' = TRUE
    /\ ncy_requested' = arr.ncy
    /\ read_data_queue' = <<>>
    /\ handle_data_queue' = <<>>
    /\ ncy_read' = 0 /\ ncy_handled' = 0 /\ ncy_saturated' = 0
    /\ sy' = Zeros /\ syy' = Zeros /\ sxy' = Zeros
    /\ arrival_times' = 0
    /\ ncy_per_meas' = split_cycles(max_ncy_per_meas, arr.ncy)
    /\ arr' = [arr EXCEPT !.call_index = 0, !.attempt = 0, !.res = "OK"]
    /\ arrPc' = "loop"
    /\ hist' = [hist EXCEPT !.req = @ + 1, !.sat_stop = FALSE, !.discarded = FALSE,
                            !.ys = <<>>, !.cancelled = FALSE, !.remeasured = FALSE,
                            !.cleared = FALSE, !.queued_cancelled = 0]
    /\ UNCHANGED <<cfgVars, threadVars, resVars, spec_open, capture_outstanding,
                   hndPc, hnd, waitPc, wait_result, discPc, sp, it_ms, tm, sesVars>>

\* The call_index loop is left (all packs captured, or docatch found False):
\* res is "OK", so wait_for_measurement() is entered.
measure_blocking_loop_exit ==
    /\ arrPc = "loop"
    /\ arr.attempt = 0
    /\ arr.call_index >= Len(ncy_per_meas) \/ ~docatch
    /\ arrPc' = IF internal_meas_done_event THEN "mb_final" ELSE "mb_blocked"
    /\ UNCHANGED <<cfgVars, threadVars, read_data_queue, handle_data_queue, docatch,
                   measuring, error, internal_meas_done_event, ncy_requested,
                   ncy_per_meas, accVars, resVars, spec_open, capture_outstanding,
                   arr, hndPc, hnd, waitPc, wait_result, discPc, hist, sp, it_ms, tm, sesVars>>

\* What measure_blocking does with a measure_pack result that is not "OK":
\* with docatch False the result is ignored (res = "OK", next call_index);
\* else the next attempt; after ntry_per_call attempts the measurement has
\* failed and handle_data_queue is emptied.
PackFailed(attempt) ==
    IF ~docatch
    THEN /\ arr' = [arr EXCEPT !.res = "OK", !.call_index = @ + 1, !.attempt = 0]
         /\ arrPc' = "loop"
         /\ UNCHANGED handle_data_queue
    ELSE IF attempt < ntry_per_call
    THEN /\ arr' = [arr EXCEPT !.attempt = attempt + 1]
         /\ arrPc' = "loop"
         /\ UNCHANGED handle_data_queue
    ELSE /\ arr' = [arr EXCEPT !.res = "ERR", !.attempt = attempt]
         /\ arrPc' = "mb_final"
         /\ handle_data_queue' = <<>>

\* A faulty loop test, which goes on capturing after a cancellation; C15 must
\* tell it from CaptureDue.
CaptureDueMutantIgnoresFlag ==
    /\ arrPc = "loop"
    /\ \/ arr.attempt >= 1
       \/ arr.call_index < Len(ncy_per_meas)

\* The next measure_pack call is due: the first attempt of the next pack
\* (docatch is True) or a further attempt of the same pack.
CaptureDue ==
    /\ arrPc = "loop"
    /\ \/ arr.attempt >= 1
       \/ arr.call_index < Len(ncy_per_meas) /\ docatch

\* measure_pack, first half: abort(disable_docatch=False), DcIc_Capture.
measure_pack_capture ==
    /\ CaptureDue
    /\ error' = "OK"
    /\ capture_outstanding' = TRUE
    /\ arr' = [arr EXCEPT !.attempt = IF @ = 0 THEN 1 ELSE @]
    /\ arrPc' = "wait_data"
    /\ UNCHANGED <<cfgVars, threadVars, read_data_queue, handle_data_queue, docatch,
                   measuring, internal_meas_done_event, ncy_requested, ncy_per_meas,
                   accVars, resVars, spec_open, hndPc, hnd, waitPc, wait_result,
                   discPc, hist, sp, it_ms, tm, sesVars>>

\* DcIc_Capture returns an error: measure_pack returns at once.
measure_pack_capture_error ==
    /\ CaptureDue
    /\ hist.n_fault < MaxFaults
    /\ error' = "OK"
    /\ PackFailed(IF arr.attempt = 0 THEN 1 ELSE arr.attempt)
    /\ hist' = Unclean([hist EXCEPT !.n_fault = @ + 1])
    /\ UNCHANGED <<cfgVars, threadVars, read_data_queue, docatch, measuring,
                   internal_meas_done_event, ncy_requested, ncy_per_meas, accVars,
                   resVars, spec_open, capture_outstanding, hndPc, hnd, waitPc,
                   wait_result, discPc, sp, it_ms, tm, sesVars>>

\* measure_pack, second half: the DcIc_Wait loop ends with the data
\* (status 2), with an error (status 0), or because docatch is False.
measure_pack_data(data) ==
    /\ capture_outstanding' = FALSE
    /\ handle_data_queue' = Append(handle_data_queue,
           [call_index |-> arr.call_index, rc |-> data, req |-> hist.req])
    /\ arr' = [arr EXCEPT !.res = "OK", !.call_index = @ + 1, !.attempt = 0]
    /\ arrPc' = "loop"
    /\ hist' = IF CountBad(data) = 0 THEN hist
               ELSE Unclean([hist EXCEPT !.n_bad = @ + CountBad(data)])
    /\ UNCHANGED <<cfgVars, threadVars, read_data_queue, docatch, measuring, error,
                   internal_meas_done_event, ncy_requested, ncy_per_meas, accVars,
                   resVars, spec_open, hndPc, hnd, waitPc, wait_result, discPc, sp, it_ms, tm, sesVars>>

measure_pack_good ==
    /\ arrPc = "wait_data"
    /\ \E data \in PackData(ncy_per_meas[arr.call_index + 1], 0) : measure_pack_data(data)

measure_pack_bad ==
    /\ arrPc = "wait_data"
    /\ \E data \in PackData(ncy_per_meas[arr.call_index + 1], MaxBadCycles - hist.n_bad) :
          CountBad(data) > 0 /\ measure_pack_data(data)

measure_pack_error ==
    /\ arrPc = "wait_data"
    /\ hist.n_fault < MaxFaults
    /\ capture_outstanding' = FALSE
    /\ PackFailed(arr.attempt)
    /\ hist' = Unclean([hist EXCEPT !.n_fault = @ + 1])
    /\ UNCHANGED <<cfgVars, threadVars, read_data_queue, docatch, measuring, error,
                   internal_meas_done_event, ncy_requested, ncy_per_meas, accVars,
                   resVars, spec_open, hndPc, hnd, waitPc, wait_result, discPc, sp, it_ms, tm, sesVars>>

\* DcIc_Capture raises (an OSError of ctypes, say): nothing between the call
\* and the thread's target catches it, so the exception leaves measure_pack,
\* measure_blocking and data_arrival_watchdog, and the capture thread ends.
measure_pack_capture_raises ==
    /\ CaptureDue
    /\ hist.n_fault < MaxFaults
    /\ error' = "OK"
    /\ arrPc' = "crashed"
    /\ hist' = Unclean([hist EXCEPT !.n_fault = @ + 1])
    /\ UNCHANGED <<cfgVars, threadVars, read_data_queue, handle_data_queue, docatch,
                   measuring, internal_meas_done_event, ncy_requested, ncy_per_meas,
                   accVars, resVars, spec_open, capture_outstanding, arr, hndPc, hnd,
                   waitPc, wait_result, discPc, sp, it_ms, tm, sesVars>>

\* DcIc_Wait raises: the same.
measure_pack_wait_raises ==
    /\ arrPc = "wait_data"
    /\ hist.n_fault < MaxFaults
    /\ capture_outstanding' = FALSE
    /\ arrPc' = "crashed"
    /\ hist' = Unclean([hist EXCEPT !.n_fault = @ + 1])
    /\ UNCHANGED <<cfgVars, threadVars, read_data_queue, handle_data_queue, docatch,
                   measuring, error, internal_meas_done_event, ncy_requested,
                   ncy_per_meas, accVars, resVars, spec_open, arr, hndPc, hnd, waitPc,
                   wait_result, discPc, sp, it_ms, tm, sesVars>>

\* SpectrometerDriver.measure_blocking (the other revision of the driver) has
\* no attempts loop: a measure_pack result that is not "OK" ends the call loop
\* at once, as a failure if docatch is True.
driver_pack_failed ==
    IF ~docatch
    THEN /\ arr' = [arr EXCEPT !.res = "OK", !.attempt = 0]
         /\ arrPc' = IF internal_meas_done_event THEN "mb_final" ELSE "mb_blocked"
         /\ UNCHANGED handle_data_queue
    ELSE /\ arr' = [arr EXCEPT !.res = "ERR", !.attempt = 1]
         /\ arrPc' = "mb_final"
         /\ handle_data_queue' = <<>>

driver_measure_pack_capture_error ==
    /\ CaptureDue
    /\ hist.n_fault < MaxFaults
    /\ error' = "OK"
    /\ driver_pack_failed
    /\ hist' = Unclean([hist EXCEPT !.n_fault = @ + 1])
    /\ UNCHANGED <<cfgVars, threadVars, read_data_queue, docatch, measuring,
                   internal_meas_done_event, ncy_requested, ncy_per_meas, accVars,
                   resVars, spec_open, capture_outstanding, hndPc, hnd, waitPc,
                   wait_result, discPc, sp, it_ms, tm, sesVars>>

driver_measure_pack_error ==
    /\ arrPc = "wait_data"
    /\ hist.n_fault < MaxFaults
    /\ capture_outstanding' = FALSE
    /\ driver_pack_failed
    /\ hist' = Unclean([hist EXCEPT !.n_fault = @ + 1])
    /\ UNCHANGED <<cfgVars, threadVars, read_data_queue, docatch, measuring, error,
                   internal_meas_done_event, ncy_requested, ncy_per_meas, accVars,
                   resVars, spec_open, hndPc, hnd, waitPc, wait_result, discPc, sp, it_ms, tm, sesVars>>

\* With docatch False the loop sends abort(ignore_errors=True,
\* disable_docatch=False) and returns "Measurement has been aborted.".
measure_pack_aborted ==
    /\ arrPc = "wait_data"
    /\ ~docatch
    /\ capture_outstanding' = FALSE
    /\ error' = "OK"
    /\ PackFailed(arr.attempt)
    /\ UNCHANGED <<cfgVars, threadVars, read_data_queue, docatch, measuring,
                   internal_meas_done_event, ncy_requested, ncy_per_meas, accVars,
                   resVars, spec_open, hndPc, hnd, waitPc, wait_result, discPc,
                   hist, sp, it_ms, tm, sesVars>>

\* measure_blocking, final cleanup (measuring = False, self.error = res), and
\* data_arrival_watchdog after it: on an error the event is set.
\* A faulty test, which forgets the recovering flag; C34 must tell it from
\* ExternalEventDue.
ExternalEventDueMutantAlways == external_meas_done_event # "None"

\* if self.external_meas_done_event is not None and not self.recovering
ExternalEventDue == external_meas_done_event # "None" /\ ~recovering

measure_blocking_final ==
    /\ arrPc = "mb_final"
    /\ measuring' = FALSE
    /\ error' = arr.res
    /\ IF arr.res # "OK"
       THEN internal_meas_done_event' = TRUE /\ waitPc' = WakeWait(waitPc)
       ELSE UNCHANGED <<internal_meas_done_event, waitPc>>
    /\ arrPc' = "get"
    /\ external_meas_done_event' =
          IF ExternalEventDue THEN "set" ELSE external_meas_done_event
    /\ UNCHANGED <<cfgVars, threadVars, read_data_queue, handle_data_queue, docatch,
                   ncy_requested, ncy_per_meas, accVars, resVars, spec_open,
                   capture_outstanding, arr, hndPc, hnd, wait_result, discPc, hist, sp,
                   it_ms, tm, Hama3_Spectrometer_Instances, dll_handler, dll_session,
                   recovering, abort_ret, Hama3_devs_info, probe, rec>>

\* ------------------------------------------------------ reduction thread
\* A faulty test, which lets invalid data through; C10 must tell it from
\* Rejected.
RejectedMutantSaturationOnly(issat, data_ok) == issat /\ abort_on_saturation

\* A faulty test, which never stops on saturation; C11 must tell it from
\* Rejected.
RejectedMutantInvalidOnly(issat, data_ok) == ~data_ok

\* The test of handle_cycle_data and of data_handling_watchdog: the cycle is
\* not accumulated and the measurement ends early.
Rejected(issat, data_ok) == (issat /\ abort_on_saturation) \/ ~data_ok

\* handle_cycle_data(ncy_read, rc): the accumulators after the call.
\* raised: the sums cannot take a vector of another length (numpy ValueError);
\* a vector of one element is broadcast over the pixels.
handle_cycle_data(n_read, rc) ==
    LET issat == issat_of(rc)
        data_ok == data_ok_of(rc)
        rcb == IF Len(rc) = 1 THEN [p \in 1..NPix |-> rc[1]] ELSE rc
    IN  IF Rejected(issat, data_ok)
        THEN [issat |-> issat, data_ok |-> data_ok, raised |-> FALSE, rc |-> rcb,
              sy |-> sy, syy |-> syy, sxy |-> sxy,
              ncy_handled |-> ncy_handled, ncy_saturated |-> ncy_saturated]
        ELSE IF Len(rcb) # NPix
        THEN [issat |-> issat, data_ok |-> data_ok, raised |-> TRUE, rc |-> rcb,
              sy |-> sy, syy |-> syy, sxy |-> sxy,
              ncy_handled |-> ncy_handled, ncy_saturated |-> ncy_saturated]
        ELSE [issat |-> issat, data_ok |-> data_ok, raised |-> FALSE, rc |-> rcb,
              sy |-> [p \in 1..NPix |-> sy[p] + rcb[p]],
              syy |-> [p \in 1..NPix |-> syy[p] + rcb[p] * rcb[p]],
              sxy |-> [p \in 1..NPix |-> sxy[p] + (n_read - 1) * rcb[p]],
              ncy_handled |-> ncy_handled + 1,
              ncy_saturated |-> IF issat THEN ncy_saturated + 1 ELSE ncy_saturated]

Abs(x) == IF x < 0 THEN 0 - x ELSE x

\* A faulty reduction, with the divisor of the sample mean; C30 must tell it
\* from calc_msl.
calc_mslMutantSample(n, a_sxy, a_sy, a_syy) ==
    IF n = 0 THEN [rcm |-> <<>>, rcs |-> <<>>, rcl |-> <<>>]
    ELSE [rcm |-> [p \in 1..NPix |-> <<a_sy[p], n + 1>>],
          rcs |-> [p \in 1..NPix |->
                     <<IF a_syy[p] * (n + 1) - a_sy[p] * a_sy[p] < 0
                       THEN a_sy[p] * a_sy[p] - a_syy[p] * (n + 1)
                       ELSE a_syy[p] * (n + 1) - a_sy[p] * a_sy[p],
                       (n + 1) * (n + 1)>>],
          rcl |-> [p \in 1..NPix |-> 0]]

\* calc_msl with n = len(x) = ncy_handled.  A mean is kept as the fraction
\* <<sy, n>>, a standard deviation as the fraction under its square root,
\* <<|syy*n - sy*sy|, n*n>>; the rms is the zero vector.
calc_msl(n, a_sxy, a_sy, a_syy) ==
    IF n = 0 THEN [rcm |-> <<>>, rcs |-> <<>>, rcl |-> <<>>]
    ELSE [rcm |-> [p \in 1..NPix |-> <<a_sy[p], n>>],
          rcs |-> [p \in 1..NPix |-> <<Abs(a_syy[p] * n - a_sy[p] * a_sy[p]), n * n>>],
          rcl |-> Zeros]

\* data_handling_watchdog: the queue is emptied when the thread starts.
handling_start ==
    /\ hndPc = "drain"
    /\ handle_data_queue' = <<>>
    /\ hndPc' = "get"
    /\ UNCHANGED <<cfgVars, threadVars, read_data_queue, docatch, measuring, error,
                   internal_meas_done_event, ncy_requested, ncy_per_meas, accVars,
                   resVars, spec_open, capture_outstanding, arrPc, arr, hnd, waitPc,
                   wait_result, discPc, hist, sp, it_ms, tm, sesVars>>

\* (call_index, arrival_time, (rc, ...)) = handle_data_queue.get()
handling_get ==
    /\ hndPc = "get"
    /\ handle_data_queue # <<>>
    /\ handle_data_queue' = Tail(handle_data_queue)
    /\ hnd' = [hnd EXCEPT !.cur = Head(handle_data_queue)]
    /\ hndPc' = "check"
    /\ UNCHANGED <<cfgVars, threadVars, read_data_queue, docatch, measuring, error,
                   internal_meas_done_event, ncy_requested, ncy_per_meas, accVars,
                   resVars, spec_open, capture_outstanding, arrPc, arr, waitPc,
                   wait_result, discPc, hist, sp, it_ms, tm, sesVars>>

\* The sentinel ends the thread; with docatch False the pack is ignored; else
\* the pack is split into ncy_per_meas[call_index] cycles (an IndexError or
\* the ValueError of np.split ends the thread).
handling_check ==
    /\ hndPc = "check"
    /\ hist' = IF hnd.cur.call_index # NoneVal /\ ~docatch
               THEN [hist EXCEPT !.discarded = TRUE] ELSE hist
    /\ IF hnd.cur.call_index = NoneVal
       THEN hndPc' = "exited" /\ hnd' = HndLocals0 /\ UNCHANGED arrival_times
       ELSE IF ~docatch
       THEN hndPc' = "get" /\ hnd' = HndLocals0 /\ UNCHANGED arrival_times
       ELSE /\ arrival_times' = arrival_times + 1
            /\ IF hnd.cur.call_index + 1 > Len(ncy_per_meas)
               THEN hndPc' = "crashed" /\ hnd' = HndLocals0
               ELSE LET ncy_pack == ncy_per_meas[hnd.cur.call_index + 1]
                        flat == Flatten(hnd.cur.rc)
                    IN  IF Len(flat) % ncy_pack # 0
                        THEN hndPc' = "crashed" /\ hnd' = HndLocals0
                        ELSE /\ hndPc' = "cycle"
                             /\ hnd' = [hnd EXCEPT !.rc = NpSplit(flat, ncy_pack), !.i = 1]
    /\ UNCHANGED <<cfgVars, threadVars, read_data_queue, handle_data_queue, docatch,
                   measuring, error, internal_meas_done_event, ncy_requested,
                   ncy_per_meas, ncy_read, ncy_handled, ncy_saturated, sy, syy, sxy,
                   resVars, spec_open, capture_outstanding, arrPc, arr, waitPc,
                   wait_result, discPc, sp, it_ms, tm, sesVars>>

\* measurement_done() with the accumulators a: arrival_times[-1] (an
\* IndexError ends the thread), calc_msl, internal_meas_done_event.set().
measurement_done(a) ==
    IF arrival_times = 0
    THEN /\ hndPc' = "crashed"
         /\ UNCHANGED <<resVars, internal_meas_done_event, arrPc, waitPc>>
    ELSE LET r == calc_msl(a.ncy_handled, a.sxy, a.sy, a.syy)
         IN  /\ rcm' = r.rcm /\ rcs' = r.rcs /\ rcl' = r.rcl
             /\ internal_meas_done_event' = TRUE
             /\ arrPc' = WakeArr(arrPc)
             /\ waitPc' = WakeWait(waitPc)
             /\ hndPc' = "get"

\* A faulty completion test, one cycle early; C1 must tell it from
\* MeasurementComplete.
MeasurementCompleteMutantEarly(handled) == handled + 1 >= ncy_requested

\* if self.ncy_handled == self.ncy_requested: the measurement is complete.
MeasurementComplete(handled) == handled = ncy_requested

\* One pass of the cycle loop of data_handling_watchdog.
handling_cycle ==
    /\ hndPc = "cycle"
    /\ LET rc == hnd.rc[hnd.i]
           a == handle_cycle_data(ncy_read + 1, rc)
       IN  /\ ncy_read' = ncy_read + 1
           /\ sy' = a.sy /\ syy' = a.syy /\ sxy' = a.sxy
           /\ ncy_handled' = a.ncy_handled
           /\ ncy_saturated' = a.ncy_saturated
           /\ IF a.raised
              THEN /\ hndPc' = "crashed"
                   /\ hnd' = HndLocals0
                   /\ UNCHANGED <<docatch, handle_data_queue, resVars,
                                  internal_meas_done_event, arrPc, waitPc, hist>>
              ELSE IF Rejected(a.issat, a.data_ok)
              THEN /\ docatch' = FALSE
                   /\ handle_data_queue' = <<>>
                   /\ hnd' = HndLocals0
                   /\ hist' = [hist EXCEPT !.sat_stop = a.issat /\ a.data_ok,
                                           !.cancelled = @ \/ InCaptureLoop]
                   /\ measurement_done(a)
              ELSE IF MeasurementComplete(a.ncy_handled)
              THEN /\ hnd' = HndLocals0
                   /\ hist' = [hist EXCEPT !.ys = Append(@, a.rc)]
                   /\ measurement_done(a)
                   /\ UNCHANGED <<docatch, handle_data_queue>>
              ELSE /\ IF hnd.i < Len(hnd.rc)
                      THEN hndPc' = "cycle" /\ hnd' = [hnd EXCEPT !.i = @ + 1]
                      ELSE hndPc' = "get" /\ hnd' = HndLocals0
                   /\ hist' = [hist EXCEPT !.ys = Append(@, a.rc)]
                   /\ UNCHANGED <<docatch, handle_data_queue, resVars,
                                  internal_meas_done_event, arrPc, waitPc>>
    /\ UNCHANGED <<cfgVars, threadVars, read_data_queue, measuring, error,
                   ncy_requested, ncy_per_meas, arrival_times, spec_open,
                   capture_outstanding, arr, wait_result, discPc, sp, it_ms, tm, sesVars>>

\* ------------------------------------------------------ integration time
\* Parameters of the camera (roe) and of the detector, in CLK.  tpi_st_max is
\* the largest DWORD.
cameras == [tpi_st_min |-> 4500, tpi_st_max |-> Pow2(RegBits) - 1,
            thp_st_min |-> 10, tlp_st_min |-> 200]

detectors == [tpi_st_min |-> 106, thp_st_min |-> 6, tlp_st_min |-> 100,
              it_offset_clk |-> 48]

\* The requested times that are tried: from below zero to beyond the largest
\* DWORD.
ItRange == (0 - cameras.thp_st_min)..(2 * (Pow2(RegBits) + 2 * detectors.it_offset_clk))

\* int(round(integration_time_s * f_clk)): Python 3 rounds a tie to the even
\* neighbour.  it \div 2 is the floor.
round(it) ==
    LET q == it \div 2
    IN  IF it % 2 = 0 THEN q
        ELSE IF q % 2 = 0 THEN q ELSE q + 1

\* A faulty conversion, which cuts the clock count to a DWORD before the
\* offset is taken off; C18 must tell it from high_period_of.
high_period_ofMutantWrap(it) == (round(it) % Pow2(RegBits)) - detectors.it_offset_clk

\* high_period = int(round(...)) - int(detectors[sensor]["it_offset_clk"])
high_period_of(it) == round(it) - detectors.it_offset_clk

\* The pulse computation both revisions share; limited: the high period had
\* to be raised to a minimum.
st_pulses(it) ==
    LET hp0 == high_period_of(it)
        hp1 == IF hp0 < cameras.thp_st_min THEN cameras.thp_st_min ELSE hp0
        hp2 == IF hp1 < detectors.thp_st_min THEN detectors.thp_st_min ELSE hp1
        lc0 == hp2 + detectors.tlp_st_min
        lc1 == IF lc0 < cameras.tpi_st_min THEN cameras.tpi_st_min
               ELSE IF lc0 > cameras.tpi_st_max THEN cameras.tpi_st_max
               ELSE lc0
        lc2 == IF lc1 < detectors.tpi_st_min THEN detectors.tpi_st_min ELSE lc1
        lp0 == lc2 - hp2
        lp1 == IF lp0 < cameras.tlp_st_min THEN cameras.tlp_st_min ELSE lp0
    IN  [limited |-> hp0 < cameras.thp_st_min \/ hp1 < detectors.thp_st_min,
         high_period |-> hp2, low_period |-> lp1, line_cycle |-> lc2]

\* Hama3_Spectrometer.compute_st_pulses: "NOK" when the high period was limited.
compute_st_pulses(it) ==
    LET r == st_pulses(it)
    IN  [res |-> IF r.limited THEN "NOK" ELSE "OK",
         high_period |-> r.high_period, low_period |-> r.low_period,
         line_cycle |-> r.line_cycle]

\* SpectrometerDriver.compute_st_pulses: always "OK".
driver_compute_st_pulses(it) ==
    LET r == st_pulses(it)
    IN  [res |-> "OK",
         high_period |-> r.high_period, low_period |-> r.low_period,
         line_cycle |-> r.line_cycle]

\* c_uint32(x).value
c_uint32(x) == x % Pow2(RegBits)

\* A call of compute_st_pulses(it_ms).
compute_call(it) ==
    /\ tm.pc = "idle"
    /\ LET r == compute_st_pulses(it)
       IN  tm' = [TimingIdle EXCEPT !.pc = "computed", !.it = it, !.res = r.res,
                                   !.high_period = r.high_period,
                                   !.low_period = r.low_period,
                                   !.line_cycle = r.line_cycle]
    /\ UNCHANGED <<pipeVars, error, it_ms>>

\* A second call, for a time that is d half clock periods longer.
compute_again(d) ==
    /\ tm.pc = "computed"
    /\ ~tm.has_prev
    /\ tm.it + d \in ItRange
    /\ LET r == compute_st_pulses(tm.it + d)
       IN  tm' = [TimingIdle EXCEPT !.pc = "computed", !.it = tm.it + d, !.res = r.res,
                                   !.high_period = r.high_period,
                                   !.low_period = r.low_period,
                                   !.line_cycle = r.line_cycle,
                                   !.has_prev = TRUE, !.prev_it = tm.it,
                                   !.prev_high = tm.high_period]
    /\ UNCHANGED <<pipeVars, error, it_ms>>

\* A call of SpectrometerDriver.compute_st_pulses(it_ms).
driver_compute_call(it) ==
    /\ tm.pc = "idle"
    /\ LET r == driver_compute_st_pulses(it)
       IN  tm' = [TimingIdle EXCEPT !.pc = "driver_computed", !.it = it, !.res = r.res,
                                   !.high_period = r.high_period,
                                   !.low_period = r.low_period,
                                   !.line_cycle = r.line_cycle]
    /\ UNCHANGED <<pipeVars, error, it_ms>>

\* The registers after the writes ws: DcIc_SetStartPulseTime sets the high
\* period, DcIc_SetLineTime the line cycle.
RECURSIVE DevAfter(_, _)
DevAfter(dev, ws) ==
    IF ws = <<>> THEN dev
    ELSE LET w == Head(ws)
         IN  DevAfter(IF w[1] = "StartPulseTime" THEN [dev EXCEPT !.thp = w[2]]
                      ELSE [dev EXCEPT !.tpi = w[2]], Tail(ws))

DevTrail(dev, ws) == [k \in 1..Len(ws) |-> DevAfter(dev, SubSeq(ws, 1, k))]

\* A faulty order of the register writes, with the final high period before
\* the line cycle; C33 must tell it from SetItWrites.
SetItWritesMutantOrder(thp_st, tpi_st) ==
    << <<"StartPulseTime", c_uint32(cameras.thp_st_min)>>,
       <<"StartPulseTime", thp_st>>,
       <<"LineTime", tpi_st>> >>

\* The three register writes of set_it, in the order of the code.
SetItWrites(thp_st, tpi_st) ==
    << <<"StartPulseTime", c_uint32(cameras.thp_st_min)>>,
       <<"LineTime", tpi_st>>,
       <<"StartPulseTime", thp_st>> >>

\* set_it(it_ms) with a device (no simulation mode).  n_accepted: how many of
\* the three register writes the device accepts; a refused write ends the
\* call.
set_it(it, n_accepted) ==
    /\ tm.pc \in {"idle", "set"}
    /\ \E r \in {compute_st_pulses(it)} :
       LET thp_st == c_uint32(r.high_period)
           tpi_st == c_uint32(r.line_cycle)
           all == SetItWrites(thp_st, tpi_st)
           writes == IF r.res = "OK" THEN SubSeq(all, 1, Min2(n_accepted + 1, 3))
                     ELSE <<>>
           res == IF r.res = "OK" /\ n_accepted = 3 THEN "OK" ELSE "ERR"
           trail == DevTrail(tm.dev, SubSeq(all, 1, n_accepted))
       IN  /\ r.res # "OK" => n_accepted = 0
           /\ tm' = [TimingIdle EXCEPT !.pc = "set", !.it = it, !.res = r.res,
                                       !.high_period = r.high_period,
                                       !.low_period = r.low_period,
                                       !.line_cycle = r.line_cycle,
                                       !.thp_st = thp_st, !.tpi_st = tpi_st,
                                       !.writes = writes, !.ret = res,
                                       !.has_prev = (it_ms # <<>>),
                                       !.prev_it = IF it_ms # <<>> THEN it_ms[1] ELSE 0,
                                       !.dev = IF n_accepted = 0 THEN tm.dev
                                               ELSE trail[n_accepted],
                                       !.trail = trail, !.accepted = n_accepted]
           /\ it_ms' = IF res = "OK" THEN <<it>> ELSE it_ms
           /\ error' = res
    /\ UNCHANGED pipeVars

\* SpectrometerDriver.set_it(it_ms): the same writes, after
\* SpectrometerDriver.compute_st_pulses.
driver_set_it(it, n_accepted) ==
    /\ tm.pc \in {"idle", "set"}
    /\ \E r \in {driver_compute_st_pulses(it)} :
       LET thp_st == c_uint32(r.high_period)
           tpi_st == c_uint32(r.line_cycle)
           all == SetItWrites(thp_st, tpi_st)
           writes == IF r.res = "OK" THEN SubSeq(all, 1, Min2(n_accepted + 1, 3))
                     ELSE <<>>
           res == IF r.res = "OK" /\ n_accepted = 3 THEN "OK" ELSE "ERR"
           trail == DevTrail(tm.dev, SubSeq(all, 1, n_accepted))
       IN  /\ r.res # "OK" => n_accepted = 0
           /\ tm' = [TimingIdle EXCEPT !.pc = "set", !.it = it, !.res = r.res,
                                       !.high_period = r.high_period,
                                       !.low_period = r.low_period,
                                       !.line_cycle = r.line_cycle,
                                       !.thp_st = thp_st, !.tpi_st = tpi_st,
                                       !.writes = writes, !.ret = res,
                                       !.has_prev = (it_ms # <<>>),
                                       !.prev_it = IF it_ms # <<>> THEN it_ms[1] ELSE 0,
                                       !.dev = IF n_accepted = 0 THEN tm.dev
                                               ELSE trail[n_accepted],
                                       !.trail = trail, !.accepted = n_accepted]
           /\ it_ms' = IF res = "OK" THEN <<it>> ELSE it_ms
           /\ error' = res
    /\ UNCHANGED pipeVars

\* set_it(it_ms) in which the device accepts n_accepted register writes and
\* the next one raises: the exception leaves set_it (ret "EXC"), before it_ms
\* and error are assigned.
set_it_raises(it, n_accepted) ==
    /\ tm.pc \in {"idle", "set"}
    /\ \E r \in {compute_st_pulses(it)} :
       LET thp_st == c_uint32(r.high_period)
           tpi_st == c_uint32(r.line_cycle)
           all == SetItWrites(thp_st, tpi_st)
       IN  /\ r.res = "OK"
           /\ n_accepted < 3
           /\ tm' = [TimingIdle EXCEPT !.pc = "set", !.it = it, !.res = r.res,
                                       !.high_period = r.high_period,
                                       !.low_period = r.low_period,
                                       !.line_cycle = r.line_cycle,
                                       !.thp_st = thp_st, !.tpi_st = tpi_st,
                                       !.writes = SubSeq(all, 1, n_accepted + 1),
                                       !.ret = "EXC",
                                       !.has_prev = (it_ms # <<>>),
                                       !.prev_it = IF it_ms # <<>> THEN it_ms[1] ELSE 0,
                                       !.dev = IF n_accepted = 0 THEN tm.dev
                                               ELSE DevAfter(tm.dev,
                                                             SubSeq(all, 1, n_accepted)),
                                       !.trail = DevTrail(tm.dev,
                                                          SubSeq(all, 1, n_accepted)),
                                       !.accepted = n_accepted]
    /\ UNCHANGED <<pipeVars, error, it_ms>>

\* ---------------------------------------------------------- specifications
\* The capture thread with a transport that always delivers.
CaptureThread ==
    \/ arrival_start
    \/ arrival_get
    \/ measure_blocking_start
    \/ measure_blocking_loop_exit
    \/ measure_pack_capture
    \/ measure_pack_good
    \/ measure_pack_aborted
    \/ measure_blocking_final

ReductionThread ==
    \/ handling_start
    \/ handling_get
    \/ handling_check
    \/ handling_cycle

Connected == data_arrival_watchdog_thread # "None"

\* Spec: one session; measure, abort and wait_for_measurement in any order;
\* the transport delivers good, saturated and invalid cycles.
Next ==
    \/ ~Connected /\ connect("ok")
    \/ \E ncy \in 0..MaxNcy : measure(ncy)
    \/ \E ok \in BOOLEAN : abort(ok)
    \/ wait_for_measurement_call
    \/ wait_for_measurement_return
    \/ CaptureThread
    \/ measure_pack_bad
    \/ ReductionThread

Spec == Init /\ [][Next]_vars

\* FaultSpec: a session without abort() calls, with a transport whose calls
\* can also fail (DcIc_Capture returning an error, DcIc_Wait reporting
\* status 0).
FaultNext ==
    \/ ~Connected /\ connect("ok")
    \/ \E ncy \in 0..MaxNcy : measure(ncy)
    \/ wait_for_measurement_call
    \/ wait_for_measurement_return
    \/ CaptureThread
    \/ measure_pack_bad
    \/ measure_pack_capture_error
    \/ measure_pack_error
    \/ ReductionThread

FaultSpec == Init /\ [][FaultNext]_vars

\* DriverSpec: FaultSpec with the call loop of SpectrometerDriver, the
\* revision of the driver without retries (its queues, threads, measure_pack
\* and reduction steps are those of Hama3_Spectrometer).
DriverNext ==
    \/ ~Connected /\ connect("ok")
    \/ \E ncy \in 0..MaxNcy : measure(ncy)
    \/ wait_for_measurement_call
    \/ wait_for_measurement_return
    \/ CaptureThread
    \/ measure_pack_bad
    \/ driver_measure_pack_capture_error
    \/ driver_measure_pack_error
    \/ ReductionThread

DriverSpec == Init /\ [][DriverNext]_vars

\* LifeSpec: sessions made of connect(), measure() and disconnect() in any
\* order, with a transport that always delivers good cycles.
LifeNext ==
    \/ \E outcome \in {"fail_early", "npix", "fail_late", "ok"} : connect(outcome)
    \/ \E ncy \in 1..MaxNcy : measure(ncy)
    \/ \E dofree \in BOOLEAN : disconnect(dofree)
    \/ disconnect_joined_arrival
    \/ disconnect_joined_handling
    \/ CaptureThread
    \/ ReductionThread

LifeSpec == Init /\ [][LifeNext]_vars

\* SplitSpec: split_cycles called with any total in -1..MaxTotal and any
\* max_ncy_per_meas in 1..MaxPer, and run one loop iteration per step.
split_call(max, total) ==
    /\ sp.pc = "idle"
    /\ sp' = [pc |-> IF total <= 0 THEN "done" ELSE "loop",
              max |-> max, total |-> total,
              st |-> [packs |-> <<>>, ncy |-> total]]
    /\ UNCHANGED <<cfgVars, threadVars, read_data_queue, handle_data_queue, docatch,
                   measuring, error, internal_meas_done_event, ncy_requested,
                   ncy_per_meas, accVars, resVars, spec_open, capture_outstanding,
                   arrPc, arr, hndPc, hnd, waitPc, wait_result, discPc, hist, it_ms, tm, sesVars>>

split_iteration ==
    /\ sp.pc = "loop"
    /\ LET st == SplitIter(sp.st, sp.max)
       IN  sp' = [sp EXCEPT !.st = st, !.pc = IF st.ncy > 0 THEN "loop" ELSE "done"]
    /\ UNCHANGED <<cfgVars, threadVars, read_data_queue, handle_data_queue, docatch,
                   measuring, error, internal_meas_done_event, ncy_requested,
                   ncy_per_meas, accVars, resVars, spec_open, capture_outstanding,
                   arrPc, arr, hndPc, hnd, waitPc, wait_result, discPc, hist, it_ms, tm, sesVars>>

split_return ==
    /\ sp.pc = "done"
    /\ sp' = SplitIdle
    /\ UNCHANGED <<cfgVars, threadVars, read_data_queue, handle_data_queue, docatch,
                   measuring, error, internal_meas_done_event, ncy_requested,
                   ncy_per_meas, accVars, resVars, spec_open, capture_outstanding,
                   arrPc, arr, hndPc, hnd, waitPc, wait_result, discPc, hist, it_ms, tm, sesVars>>

SplitNext ==
    \/ \E max \in 1..MaxPer, total \in (0 - 1)..MaxTotal : split_call(max, total)
    \/ split_iteration
    \/ split_return

SplitSpec == Init /\ [][SplitNext]_vars

\* ProbeSpec: the device search of connect() (both revisions), from
\* get_number_of_devices() to the DcIc_Connect of the device found.
\* The serial number configured is "sn"; the devices enumerated have distinct
\* serial numbers.
Answers == {"ok", "connect_fail", "info_fail"}

RECURSIVE DeviceLists(_)
DeviceLists(n) ==
    IF n = 0 THEN {<<>>}
    ELSE LET shorter == DeviceLists(n - 1)
         IN  shorter \cup
             {Append(d, [sn |-> x, answer |-> a]) :
                d \in {e \in shorter : Len(e) = n - 1},
                x \in {"sn", "other1", "other2", "other3"}, a \in Answers}

DistinctSerials(devs) ==
    \A j, k \in 1..Len(devs) : j # k => devs[j].sn # devs[k].sn

\* connect() up to get_number_of_devices(), which reports the devices devs.
\* A later connect() of the session finds the same devices.
connect_search_call(devs) ==
    /\ probe.pc \in {"idle", "done"}
    /\ probe.calls < MaxConnects
    /\ DistinctSerials(devs)
    /\ probe.calls > 0 => devs = probe.devs
    /\ probe' = [ProbeIdle EXCEPT !.pc = "loop", !.devs = devs, !.calls = probe.calls + 1]
    /\ UNCHANGED <<workVars, error, it_ms, tm, Hama3_Spectrometer_Instances, dll_handler,
                   dll_session, recovering, external_meas_done_event, abort_ret,
                   Hama3_devs_info, rec>>

\* res after the probe of one device: the error of DcIc_Connect or of
\* get_dev_info, or the "OK" of get_dev_info.
ProbeResult(res, answer) == IF answer = "ok" THEN "OK" ELSE "ERR"

\* One iteration of `for i in range(ndev)`: a device that is not yet in
\* Hama3_devs_info is connected and asked for its information; a failure
\* sets res and goes on with the next device, a success sets res to "OK"
\* (the value returned by get_dev_info) and records the device.
connect_search_probe ==
    /\ probe.pc = "loop"
    /\ probe.i < Len(probe.devs)
    /\ LET d == probe.devs[probe.i + 1]
           known == probe.i \in DOMAIN Hama3_devs_info
       IN  /\ probe' = [probe EXCEPT !.i = @ + 1,
                                     !.res = IF known THEN @ ELSE ProbeResult(@, d.answer)]
           /\ Hama3_devs_info' =
                 IF ~known /\ d.answer = "ok"
                 THEN [k \in DOMAIN Hama3_devs_info \cup {probe.i} |->
                         IF k = probe.i THEN d.sn ELSE Hama3_devs_info[k]]
                 ELSE Hama3_devs_info
    /\ UNCHANGED <<workVars, error, it_ms, tm, Hama3_Spectrometer_Instances, dll_handler,
                   dll_session, recovering, external_meas_done_event, abort_ret, rec>>

\* After the loop: with res "OK" the device with the serial number sn is
\* looked up in Hama3_devs_info and connected.
connect_search_find ==
    /\ probe.pc = "loop"
    /\ probe.i = Len(probe.devs)
    /\ LET found == {k \in DOMAIN Hama3_devs_info : Hama3_devs_info[k] = "sn"}
           dev_index == IF probe.res = "OK" /\ found # {}
                        THEN CHOOSE k \in found : TRUE ELSE NoneVal
           res == IF probe.res # "OK" THEN probe.res
                  ELSE IF found = {} THEN "ERR"
                  ELSE "OK"
       IN  probe' = [probe EXCEPT !.pc = "done", !.res = res, !.dev_index = dev_index,
                                  !.spec_id = IF res = "OK" THEN dev_index + 1 ELSE 0]
    /\ UNCHANGED <<workVars, error, it_ms, tm, Hama3_Spectrometer_Instances, dll_handler,
                   dll_session, recovering, external_meas_done_event, abort_ret,
                   Hama3_devs_info, rec>>

ProbeNext ==
    \/ \E devs \in DeviceLists(MaxDevs) : connect_search_call(devs)
    \/ connect_search_probe
    \/ connect_search_find

\* SplitAnySpec: split_cycles with any configured max_ncy_per_meas, zero and
\* negative included; the loop is followed for MaxIter iterations.
split_iteration_followed ==
    /\ Len(sp.st.packs) < MaxIter
    /\ split_iteration

SplitAnyNext ==
    \/ \E max \in (0 - 1)..MaxPer, total \in (0 - 1)..MaxTotal : split_call(max, total)
    \/ split_iteration_followed
    \/ split_return

SplitAnySpec == Init /\ [][SplitAnyNext]_vars

\* TimingSpec: compute_st_pulses of both revisions, called with any requested
\* time of ItRange, and called again with a longer time.
\* The configuration of the pipeline plays no part in it.
TimingInit == Init /\ ~abort_on_saturation /\ max_ncy_per_meas = 1

TimingNext ==
    \/ tm.pc = "idle" /\ \E it \in ItRange : compute_call(it)
    \/ \E d \in 1..MaxStride : compute_again(d)
    \/ tm.pc = "idle" /\ \E it \in ItRange : driver_compute_call(it)

TimingSpec == TimingInit /\ [][TimingNext]_vars

\* SetItSpec: the set_it of connect() and, when it has succeeded, a set_it
\* with any requested time.
AfterConnect == tm.pc = "set" /\ tm.it = min_it_ms /\ tm.ret = "OK"

SetItNext ==
    \/ it_ms = <<>> /\ \E n_accepted \in 0..3 : set_it(min_it_ms, n_accepted)
    \/ AfterConnect /\ \E it \in ItRange, n_accepted \in 0..3 : set_it(it, n_accepted)

SetItSpec == TimingInit /\ [][SetItNext]_vars

\* The parent module: it gives the driver a new Event, clears the Event, and
\* writes the recovering flag.
parent_gives_event ==
    /\ external_meas_done_event = "None"
    /\ external_meas_done_event' = "clear"
    /\ UNCHANGED <<workVars, error, it_ms, tm, Hama3_Spectrometer_Instances, dll_handler,
                   dll_session, recovering, abort_ret, Hama3_devs_info, probe, rec>>

parent_clears_event ==
    /\ external_meas_done_event = "set"
    /\ external_meas_done_event' = "clear"
    /\ UNCHANGED <<workVars, error, it_ms, tm, Hama3_Spectrometer_Instances, dll_handler,
                   dll_session, recovering, abort_ret, Hama3_devs_info, probe, rec>>

parent_sets_recovering(b) ==
    /\ recovering # b
    /\ recovering' = b
    /\ UNCHANGED <<workVars, error, it_ms, tm, Hama3_Spectrometer_Instances, dll_handler,
                   dll_session, external_meas_done_event, abort_ret, Hama3_devs_info, probe, rec>>

\* NotifySpec: one session with failing transport calls, and the parent
\* module.
NotifyNext ==
    \/ ~Connected /\ connect("ok")
    \/ \E ncy \in 1..MaxNcy : measure(ncy)
    \/ \E ok \in BOOLEAN : abort(ok)
    \/ CaptureThread
    \/ measure_pack_capture_error
    \/ measure_pack_error
    \/ ReductionThread
    \/ parent_gives_event
    \/ parent_clears_event
    \/ \E b \in BOOLEAN : parent_sets_recovering(b)

NotifySpec == TimingInit /\ [][NotifyNext]_vars

\* RegSpec: the set_it of connect(), a set_it with one of the times PrevIts
\* (the shortest time that is accepted, with the shortest line cycle, and
\* the longest one, whose high period does not fit the register),
\* and then a set_it of either revision with any requested time, of which
\* the device accepts any number of writes.
PrevIts == {2 * (cameras.thp_st_min + detectors.it_offset_clk),
            2 * (Pow2(RegBits) + 2 * detectors.it_offset_clk)}

RegNext ==
    \/ it_ms = <<>> /\ set_it(min_it_ms, 3)
    \/ it_ms = <<min_it_ms>> /\ ~tm.has_prev /\ \E it \in PrevIts : set_it(it, 3)
    \/ /\ tm.has_prev /\ tm.prev_it = min_it_ms /\ tm.it \in PrevIts /\ tm.ret = "OK"
       /\ \E it \in ItRange, n_accepted \in 0..3 : set_it(it, n_accepted)
    \/ /\ tm.has_prev /\ tm.prev_it = min_it_ms /\ tm.it \in PrevIts /\ tm.ret = "OK"
       /\ \E it \in ItRange, n_accepted \in 0..3 : driver_set_it(it, n_accepted)

RegSpec == TimingInit /\ [][RegNext]_vars

ProbeSpec == TimingInit /\ [][ProbeNext]_vars

\* RaiseSpec: a session with a transport whose calls can raise, and with one set_it(min_it_ms) of the controlling thread at
\* any moment of the session.
RaiseNext ==
    \/ ~Connected /\ connect("ok")
    \/ \E ncy \in 1..MaxNcy : measure(ncy)
    \/ \E ok \in BOOLEAN : abort(ok)
    \/ wait_for_measurement_call
    \/ wait_for_measurement_return
    \/ CaptureThread
    \/ measure_pack_capture_raises
    \/ measure_pack_wait_raises
    \/ ReductionThread
    \/ Connected /\ tm.pc = "idle" /\ set_it(min_it_ms, 3)
    \/ Connected /\ tm.pc = "idle" /\ \E n_accepted \in 0..2 : set_it_raises(min_it_ms, n_accepted)

RaiseSpec == TimingInit /\ [][RaiseNext]_vars

\* AbortSpec: a session with one measure() and abort() calls of either
\* revision of the driver, with every combination of ignore_errors and
\* disable_docatch and every outcome of DcIc_Abort.
AbortNext ==
    \/ ~Connected /\ connect("ok")
    \/ hist.n_measure = 0 /\ \E ncy \in 1..MaxNcy : measure(ncy)
    \/ \E ignore_errors \in BOOLEAN, disable_docatch \in BOOLEAN,
          outcome \in {"ok", "fail", "raise"} :
          abort_call(ignore_errors, disable_docatch, outcome)
    \/ \E ignore_errors \in BOOLEAN, disable_docatch \in BOOLEAN,
          outcome \in {"ok", "fail", "raise"} :
          driver_abort_call(ignore_errors, disable_docatch, outcome)
    \/ wait_for_measurement_call
    \/ wait_for_measurement_return
    \/ CaptureThread
    \/ ReductionThread

AbortSpec == TimingInit /\ [][AbortNext]_vars

\* RecoverySpec: a session with connect(), one measure(), disconnect() and one
\* recovery(ntry, dofree), next to a second instance that uses the same dll;
\* the transport delivers good cycles, and every step of connect() and of the
\* soft part of recovery() can fail.
RecoveryNext ==
    \/ \E outcome \in {"fail_early", "npix", "fail_late", "ok"} : connect(outcome)
    \/ hist.n_measure = 0 /\ \E ncy \in 1..MaxNcy : measure(ncy)
    \/ \E dofree \in BOOLEAN : disconnect(dofree)
    \/ disconnect_joined_arrival
    \/ disconnect_joined_handling
    \/ \E ntry \in 1..MaxTry, dofree \in BOOLEAN : recovery_call(ntry, dofree)
    \/ \E soft \in {"abort_fail", "set_it_fail", "ok"} : recovery_soft(soft)
    \/ recovery_disconnect
    \/ \E outcome \in {"fail_early", "npix", "fail_late", "ok"} : recovery_connect(outcome)
    \/ other_connect
    \/ other_disconnect
    \/ CaptureThread
    \/ ReductionThread

RecoverySpec == TimingInit /\ [][RecoveryNext]_vars

\* ------------------------------------------------------------------ claims

AbortedInFlight ==
    /\ hist.n_measure = 1
    /\ hist.req = 1
    /\ hist.n_abort = 1
    /\ hist.n_bad = 0
    /\ Len(ncy_per_meas) >= 2
    /\ ~docatch
    /\ ~internal_meas_done_event

C2_AbortedMeasurementEnds ==
    AbortedInFlight => ENABLED (CaptureThread \/ ReductionThread)

\* C3: a request that measure(ncy) has queued and measure_blocking has
\* started reaches its end for every ncy >= 0: as long as
\* internal_meas_done_event has not been set for it, a worker thread has a
\* step to take (no abort, no rejected cycle, no other request).
RequestOpen ==
    /\ hist.n_measure = 1
    /\ hist.req = 1
    /\ hist.n_abort = 0
    /\ hist.n_bad = 0
    /\ ~internal_meas_done_event

C3_RequestReachesEnd ==
    RequestOpen => ENABLED (CaptureThread \/ ReductionThread)

\* C4: once every attempt of one pack has failed (the capture thread holds a
\* result that is not OK), the request has ended as failed: no capture is
\* outstanding and none is started for it, the packs queued for reduction are
\* gone, ncy_handled < ncy_requested, and a wait_for_measurement() that
\* returns from then on returns a status that is not OK.
RetriesExhausted == arr.res # "OK"

WaitReturns == wait_result = "none" /\ wait_result' # "none"

C4_FailedPackFailsMeasurement ==
    [][/\ RetriesExhausted' =>
             /\ arrPc' \in {"mb_final", "get"}
             /\ ~capture_outstanding'
             /\ handle_data_queue' = <<>>
             /\ ncy_handled' < ncy_requested'
       /\ (RetriesExhausted /\ WaitReturns) => wait_result' # "OK"]_vars

\* C5: a request queued while another one is pending or in flight is never
\* dropped: once the capture loop runs, read_data_queue only changes by
\* measure() appending a request or by the capture thread taking its head.
C5_QueuedRequestNeverDropped ==
    [][arrPc \notin {"none", "drain"} =>
          \/ read_data_queue' = read_data_queue
          \/ \E ncy \in 0..MaxNcy : read_data_queue' = Append(read_data_queue, ncy)
          \/ /\ arrPc = "get"
             /\ arrPc' = "mb_init"
             /\ read_data_queue' = Tail(read_data_queue)]_vars

\* C6: once disconnect() has pushed a sentinel it returns, whatever state the
\* request that measure() queued is in: in a session connected once, with a
\* request started, as long as disconnect() has not returned, a worker thread
\* has a step to take or a join can return.
C6_DisconnectReturns ==
    (discPc # "idle" /\ hist.n_connect = 1 /\ hist.req >= 1) =>
        ENABLED (\/ CaptureThread
                 \/ ReductionThread
                 \/ disconnect_joined_arrival
                 \/ disconnect_joined_handling)

\* C7: the transport-level disconnect (DcIc_Disconnect on an open session) is
\* never called while a capture-and-wait call is outstanding.
C7_NoDisconnectDuringCapture ==
    [][(spec_open /\ ~spec_open') => ~capture_outstanding]_vars

\* C8: a worker thread is only started when the session has none, and
\* connect() on an already connected session starts no thread and leaves the
\* queued requests, the queued packs and the accumulated data as they are.
AlreadyConnected ==
    /\ data_arrival_watchdog_thread # "None"
    /\ data_handling_watchdog_thread # "None"
    /\ spec_open

ConnectCalled == hist.n_connect' = hist.n_connect + 1

C8_ConnectIdempotent ==
    [][/\ (arrPc' = "drain" /\ arrPc # "drain") => arrPc = "none"
       /\ (hndPc' = "drain" /\ hndPc # "drain") => hndPc = "none"
       /\ (AlreadyConnected /\ ConnectCalled) =>
             UNCHANGED <<threadVars, arrPc, hndPc, read_data_queue,
                         handle_data_queue, accVars>>]_vars

\* C9: when split_cycles(max_per_call, total) returns, with max_per_call >= 1:
\* for total <= 0 the list is empty; else the pack sizes sum to total, each is
\* in 1..max_per_call, there are ceil(total / max_per_call) of them and all but
\* the last equal max_per_call.  The list is the one measure_blocking uses.
CeilDiv(a, b) == (a + b - 1) \div b

C9_SplitCyclesExact ==
    sp.pc = "done" =>
        LET packs == sp.st.packs
        IN  /\ packs = split_cycles(sp.max, sp.total)
            /\ sp.total <= 0 => packs = <<>>
            /\ sp.total > 0 =>
                  /\ SumSeq(packs) = sp.total
                  /\ \A j \in 1..Len(packs) : packs[j] \in 1..sp.max
                  /\ Len(packs) = CeilDiv(sp.total, sp.max)
                  /\ \A j \in 1..(Len(packs) - 1) : packs[j] = sp.max

C9_Witness ==
    /\ sp.pc = "done"
    /\ sp.total = MaxTotal
    /\ Len(sp.st.packs) >= 2
    /\ sp.st.packs[Len(sp.st.packs)] < sp.max

\* C10: each cycle the reduction thread handles is accumulated (sy, syy, sxy
\* updated, ncy_handled + 1) exactly when its data is ok and it is not
\* (saturated with abort_on_saturation); in the opposite case the sums and
\* ncy_handled stay as they are, capturing is stopped, the queued packs are
\* dropped, the results are computed from the cycles accumulated so far and
\* the event is set, and self.error is not touched (the status stays OK).
CycleHandled == hndPc = "cycle" /\ ncy_read' = ncy_read + 1

C10_PerCyclePolicy ==
    [][CycleHandled =>
          LET rc == hnd.rc[hnd.i]
              negative == \E p \in DOMAIN rc : rc[p] # NaN /\ rc[p] < 0
              nan == \E p \in DOMAIN rc : rc[p] = NaN
              saturated == ~nan /\ \E p \in DOMAIN rc : rc[p] >= eff_saturation_limit
              keep == ~negative /\ ~nan /\ ~(saturated /\ abort_on_saturation)
          IN  /\ error' = error
              /\ keep =>
                    /\ ncy_handled' = ncy_handled + 1
                    /\ sy' = [p \in 1..NPix |-> sy[p] + rc[p]]
                    /\ syy' = [p \in 1..NPix |-> syy[p] + rc[p] * rc[p]]
                    /\ sxy' = [p \in 1..NPix |-> sxy[p] + ncy_read * rc[p]]
              /\ ~keep =>
                    /\ UNCHANGED <<ncy_handled, sy, syy, sxy>>
                    /\ docatch' = FALSE
                    /\ handle_data_queue' = <<>>
                    /\ internal_meas_done_event'
                    /\ Len(rcm') = IF ncy_handled = 0 THEN 0 ELSE NPix
                    /\ \A p \in DOMAIN rcm' : rcm'[p] = <<sy[p], ncy_handled>>]_vars

\* An early-terminated request without abort returns OK.
C10_Witness ==
    /\ hist.n_bad = 1
    /\ hist.n_abort = 0
    /\ ncy_handled >= 1
    /\ ncy_read = ncy_handled + 1
    /\ ~docatch
    /\ wait_result = "OK"
    /\ Len(rcm) = NPix

\* C11: with abort_on_saturation, in a request of n cycles that is the only
\* one of the session, was issued with both loops running and is not
\* aborted, a saturated (valid) cycle at
\* position k ends the measurement at once: ncy_read = k, ncy_handled = k - 1,
\* the results are those of the cycles 1..k-1 (none for k = 1), the queued
\* packs are dropped, capturing is stopped and the event is set in the same
\* step, whatever packs are still to come.
SingleRequest ==
    hist.n_measure = 1 /\ hist.req = 1 /\ hist.n_abort = 0 /\ hist.ready

\* Position in the request of the cycle the reduction thread is about to
\* handle: the cycles of the packs before its pack, plus its index.
CyclePosition == SumSeq(SubSeq(ncy_per_meas, 1, hnd.cur.call_index)) + hnd.i

SaturatedValid(rc) ==
    /\ \A p \in DOMAIN rc : rc[p] # NaN /\ rc[p] >= 0
    /\ \E p \in DOMAIN rc : rc[p] >= eff_saturation_limit

RequestStarted == hist.req' = hist.req + 1

HoldsPack == hndPc \in {"check", "cycle"}

C12_ResetBeforeData ==
    [][/\ RequestStarted => ~HoldsPack
       /\ (CycleHandled /\ ncy_handled' = ncy_handled + 1) =>
              hnd.cur.req = hist.req]_vars

\* C13 (both revisions of measure_blocking): a failing capture call is
\* retried, at most 3 attempts per pack.  A
\* pack that succeeds (on attempt 1, 2 or 3) is put into handle_data_queue
\* once, and the capture loop moves to the next pack.  A failed attempt
\* before the third (with the measurement not cancelled) is followed by
\* another attempt of the same pack, nothing being queued.  When the third
\* attempt fails the measurement has failed: a non-OK result, the queued
\* packs dropped, no further capture call for the request, and
\* measure_blocking ends with self.error not OK and the event set.
FailedAttempt == hist.n_fault' = hist.n_fault + 1

AttemptNo == IF arr.attempt = 0 THEN 1 ELSE arr.attempt

PackQueued == Len(handle_data_queue') = Len(handle_data_queue) + 1

CaptureCalled == (~capture_outstanding /\ capture_outstanding') \/ FailedAttempt

C13_BoundedRetry ==
    [][/\ arr.attempt' \in 0..3
       /\ PackQueued =>
             /\ arrPc = "wait_data"
             /\ arr.attempt \in 1..3
             /\ \A j \in 1..Len(handle_data_queue) :
                    handle_data_queue'[j] = handle_data_queue[j]
                    /\ ~(/\ handle_data_queue[j].call_index = arr.call_index
                         /\ handle_data_queue[j].req = hist.req)
             /\ handle_data_queue'[Len(handle_data_queue')].call_index = arr.call_index
             /\ Len(handle_data_queue'[Len(handle_data_queue')].rc)
                    = ncy_per_meas[arr.call_index + 1]
             /\ arr.call_index' = arr.call_index + 1
             /\ arr.attempt' = 0
             /\ arr.res' = "OK"
       /\ (FailedAttempt /\ docatch /\ AttemptNo < 3) =>
             /\ arr.attempt' = AttemptNo + 1
             /\ arr.call_index' = arr.call_index
             /\ arr.res' = "OK"
             /\ arrPc' = "loop"
             /\ UNCHANGED handle_data_queue
       /\ (FailedAttempt /\ docatch /\ AttemptNo >= 3) =>
             /\ arr.res' # "OK"
             /\ arrPc' = "mb_final"
             /\ handle_data_queue' = <<>>
       /\ arr.res # "OK" => ~CaptureCalled /\ ~PackQueued
       /\ (arr.res # "OK" /\ arrPc = "mb_final" /\ arrPc' # "mb_final") =>
             /\ error' # "OK"
             /\ internal_meas_done_event'
             /\ ~measuring']_vars

\* C14: packs are handled in the order they were queued, which is that of
\* their index; the cycles of a pack are handled in increasing order; the
\* sequence index ncy_read given to handle_cycle_data grows by one with each
\* cycle handled, from 1 at the first cycle after a reset, and is at most
\* ncy_requested while the request is active (measuring, event not set).
PackTaken == hndPc = "get" /\ hndPc' = "check"

CycleStep == hndPc = "cycle" /\ hnd' # hnd

RequestActive == measuring /\ ~internal_meas_done_event

C14_OrderedGaplessCycles ==
    [][/\ \A i, j \in 1..Len(handle_data_queue) :
             i < j => handle_data_queue[i].call_index < handle_data_queue[j].call_index
       /\ PackTaken =>
             /\ hnd.cur' = Head(handle_data_queue)
             /\ handle_data_queue' = Tail(handle_data_queue)
       /\ CycleStep =>
             /\ hnd.i \in 1..Len(hnd.rc)
             /\ hndPc' = "cycle" => hnd.i' = hnd.i + 1 /\ hnd.rc' = hnd.rc
             /\ ncy_read' = ncy_read + 1
             /\ RequestActive => ncy_read' <= ncy_requested
       /\ ~CycleStep => ncy_read' \in {ncy_read, 0}]_vars

\* C15: cancellation is cooperative.  The first attempt of a pack is only
\* issued with docatch True, and once the capture loop has been left no
\* capture call is made until the next request is started; a pack that the
\* reduction thread has dequeued and finds docatch False is dropped, no
\* counter and no sum being changed.
LoopLeft == arrPc \in {"mb_blocked", "mb_final", "get", "mb_init"}

PackChecked == hndPc = "check" /\ hndPc' # "check" /\ hnd.cur.call_index # NoneVal

C15_CooperativeCancel ==
    [][/\ (CaptureCalled /\ arr.attempt = 0) => docatch
       /\ LoopLeft => ~CaptureCalled /\ ~PackQueued
       /\ (PackChecked /\ ~docatch) =>
             /\ hndPc' = "get"
             /\ UNCHANGED <<accVars, resVars, internal_meas_done_event>>]_vars

\* abort() during a request of two packs: the capture loop was left with the
\* second pack not captured, and the reduction thread has dropped the first.
C15_Witness ==
    /\ hist.n_measure = 1
    /\ hist.req = 1
    /\ hist.n_abort = 1
    /\ hist.n_bad = 0
    /\ ~docatch
    /\ hist.discarded
    /\ Len(ncy_per_meas) = 2
    /\ arr.call_index = 1
    /\ arrPc = "mb_blocked"
    /\ ncy_read = 0
    /\ hndPc = "get"

\* C16: the result of a request is written once: from the step that sets
\* internal_meas_done_event, and as long as the event stays set (the next
\* measure() clears it), rcm, rcs, rcl, ncy_handled and ncy_saturated keep
\* their values.
C16_ResultImmutable ==
    [][(internal_meas_done_event /\ internal_meas_done_event') =>
          UNCHANGED <<rcm, rcs, rcl, ncy_handled, ncy_saturated>>]_vars

\* C17 (both revisions of compute_st_pulses): with target the requested time
\* in clock periods, rounded to the nearest integer, minus the sensor offset,
\* and floor the larger of the camera's and the sensor's minimum high period:
\* for target < floor the call returns a status that is not OK and
\* high_period = floor; else it returns OK and high_period = target.
NearestClk(it) ==
    LET up == (it + 1) \div 2
    IN  IF it % 2 = 1 /\ up % 2 = 1 THEN up - 1 ELSE up

TargetHigh(it) == NearestClk(it) - detectors.it_offset_clk

FloorHigh ==
    IF cameras.thp_st_min > detectors.thp_st_min
    THEN cameras.thp_st_min ELSE detectors.thp_st_min

C17_TimingClamp ==
    tm.pc \in {"computed", "driver_computed"} =>
        IF TargetHigh(tm.it) < FloorHigh
        THEN tm.res # "OK" /\ tm.high_period = FloorHigh
        ELSE tm.res = "OK" /\ tm.high_period = TargetHigh(tm.it)

\* C18: of two calls of compute_st_pulses with requested times it1 < it2,
\* both at or above the floor, the second has the larger or the same
\* high_period.
C18_TimingMonotone ==
    (/\ tm.pc = "computed"
     /\ tm.has_prev
     /\ tm.prev_it < tm.it
     /\ TargetHigh(tm.prev_it) >= FloorHigh
     /\ TargetHigh(tm.it) >= FloorHigh) =>
        tm.prev_high <= tm.high_period

\* Two times, MaxStride half periods apart, with different high periods.
C18_Witness ==
    /\ tm.pc = "computed"
    /\ tm.has_prev
    /\ tm.it = tm.prev_it + MaxStride
    /\ tm.prev_it >= min_it_ms
    /\ tm.res = "OK"
    /\ tm.prev_high < tm.high_period

\* C19: the high_period and the line_cycle that set_it converts to DWORDs are
\* within 0..2^RegBits - 1, so that the values written are the values
\* computed.
C19_RegistersInRange ==
    (tm.pc = "set" /\ tm.res = "OK") =>
        /\ tm.high_period \in 0..(Pow2(RegBits) - 1)
        /\ tm.line_cycle \in 0..(Pow2(RegBits) - 1)
        /\ tm.thp_st = tm.high_period
        /\ tm.tpi_st = tm.line_cycle

\* C20: a set_it with a requested time beyond the limits (target below the
\* floor, or time above max_it_ms) returns a status that is not OK, writes
\* no register and leaves it_ms as it is; and it_ms only changes in a set_it
\* that returns OK.
BeyondLimits(it) == TargetHigh(it) < FloorHigh \/ it > max_it

C20_SetItRejectsOutOfLimits ==
    [][/\ (tm' # tm /\ tm.pc' = "set" /\ BeyondLimits(tm.it')) =>
             /\ tm.ret' # "OK"
             /\ tm.writes' = <<>>
             /\ it_ms' = it_ms
       /\ it_ms' # it_ms => tm.pc' = "set" /\ tm.ret' = "OK" /\ it_ms' = <<tm.it'>>]_vars

\* recovery() returns in this step.
RecoveryReturns == rec.pc # "done" /\ rec'.pc = "done"

\* Both worker threads exist and are in their loops (or about to enter them).
BothLoopsRunning ==
    /\ data_arrival_watchdog_thread = "Thread"
    /\ data_handling_watchdog_thread = "Thread"
    /\ arrPc \notin {"none", "exited", "crashed"}
    /\ hndPc \notin {"none", "exited", "crashed"}

\* C21: when recovery(ntry=3) returns after a first pass in which the soft
\* part and the reconnect failed and a second pass in which the soft part
\* failed and the reconnect succeeded, it returns "OK" out of the second pass
\* (there is no third), the device handle is open, the instance is registered,
\* both worker loops are running, and the recovery state is as at the start:
\* recovering and docatch are False (the driver keeps no recovery level; the
\* loop index is a local of recovery()).
C21_RecoveryScenario ==
    [][(/\ RecoveryReturns
        /\ rec'.ntry = 3
        /\ Len(rec'.log) >= 2
        /\ rec'.log[1] = "hard_fail"
        /\ rec'.log[2] = "hard_ok")
       => (/\ rec'.res = "OK"
           /\ Len(rec'.log) = 2
           /\ rec'.i = 1
           /\ spec_open'
           /\ "self" \in Hama3_Spectrometer_Instances'
           /\ BothLoopsRunning'
           /\ ~recovering'
           /\ ~docatch')]_vars

C21_Witness ==
    /\ rec.pc = "done"
    /\ rec.ntry = 3
    /\ rec.log = <<"hard_fail", "hard_ok">>
    /\ rec.res = "OK"
    /\ BothLoopsRunning
    /\ hist.n_measure > 0

\* C22: when recovery(ntry) returns after ntry passes that all failed, it
\* returns a status that is not "OK", no worker thread exists, the instance
\* is not in Hama3_Spectrometer_Instances and no device handle is open.
C22_ExhaustedRecoveryDisconnected ==
    [][(/\ RecoveryReturns
        /\ Len(rec'.log) = rec'.ntry
        /\ \A k \in 1..Len(rec'.log) : rec'.log[k] = "hard_fail")
       => (/\ rec'.res # "OK"
           /\ data_arrival_watchdog_thread' = "None"
           /\ data_handling_watchdog_thread' = "None"
           /\ "self" \notin Hama3_Spectrometer_Instances'
           /\ ~spec_open')]_vars

\* C23: a step that ends the dll session of the process (DcIc_Terminate, sent
\* by disconnect(dofree=True), also from recovery()) is only taken when no
\* other instance is registered in Hama3_Spectrometer_Instances.
C23_SharedInterfaceKept ==
    [][(dll_session /\ ~dll_session') => "other" \notin Hama3_Spectrometer_Instances]_vars

\* C24: no public operation is left by an exception of a transport call
\* (set_it, recovery), and a transport call that raises in the capture thread
\* does not end that thread.
C24_FaultsBecomeStatus ==
    /\ tm.ret # "EXC"
    /\ rec.pc # "raised"
    /\ arrPc # "crashed"

\* A timing register is written in this step (by set_it, which runs in the
\* thread of its caller).
RegisterWritten == tm' # tm /\ tm'.pc = "set" /\ tm'.writes # <<>>

\* C25: while a capture-and-wait call of the capture thread is outstanding,
\* no other thread sends a transport call but abort: no timing register is
\* written.
C25_TransportFromCaptureThread ==
    [][capture_outstanding => ~RegisterWritten]_vars

\* C26: every abort() call of a controlling thread returns a status and is
\* not left by an exception; with ignore_errors the status is "OK" whatever
\* DcIc_Abort did, without it the status is not "OK" when DcIc_Abort returned
\* an error or raised; docatch is False after the call with disable_docatch
\* and as before the call without it.
C26_AbortIgnoreErrors ==
    [][abort_ret' # abort_ret =>
         /\ abort_ret'.called
         /\ abort_ret'.res \in {"OK", "ERR"}
         /\ error' = abort_ret'.res
         /\ abort_ret'.ignore_errors => abort_ret'.res = "OK"
         /\ (~abort_ret'.ignore_errors /\ abort_ret'.outcome # "ok")
               => abort_ret'.res # "OK"
         /\ docatch' = (IF abort_ret'.disable_docatch THEN FALSE ELSE docatch)]_vars

C26_Witness ==
    /\ abort_ret.called
    /\ abort_ret.ignore_errors
    /\ abort_ret.outcome = "raise"
    /\ abort_ret.res = "OK"
    /\ ~abort_ret.disable_docatch
    /\ docatch
    /\ capture_outstanding

\* C27: a connect() that finds the pixel-count mismatch returns a status that
\* is not "OK" and starts no worker thread; and a session whose latest
\* connect() reported the mismatch has no worker loop and no capture
\* outstanding, so that no measurement is started on it.
C27_PixelMismatchReported ==
    [][/\ (ConnectCalled /\ hist'.npix_error) =>
             /\ error' # "OK"
             /\ data_arrival_watchdog_thread' = data_arrival_watchdog_thread
             /\ data_handling_watchdog_thread' = data_handling_watchdog_thread
       /\ hist'.npix_error =>
             /\ data_arrival_watchdog_thread' = "None"
             /\ data_handling_watchdog_thread' = "None"
             /\ ~capture_outstanding']_vars

\* measure() is called in this step.
MeasureCalled == hist'.n_measure = hist.n_measure + 1

\* C28: measure() called on a session without capture thread returns a
\* status that is not "OK" and puts nothing into read_data_queue.
C28_MeasureRejectsUnserved ==
    [][(MeasureCalled /\ data_arrival_watchdog_thread = "None") =>
         (error' # "OK" /\ read_data_queue' = read_data_queue)]_vars

\* The reduction thread takes this step.
ReductionStep == hnd' # hnd \/ hndPc' # hndPc

\* The cycle that the reduction thread is about to handle ends the
\* measurement with nothing accumulated.
EndsEmpty ==
    /\ hndPc = "cycle"
    /\ LET a == handle_cycle_data(ncy_read + 1, hnd.rc[hnd.i])
       IN  /\ ~a.raised
           /\ Rejected(a.issat, a.data_ok)
           /\ a.ncy_handled = 0

\* C29: when the reduction thread ends a measurement with ncy_handled = 0
\* (the cycle is saturated or invalid and none was accumulated before), the
\* final reduction leaves rcm, rcs and rcl empty (no NaN, no division by
\* zero), the thread goes on, and internal_meas_done_event is set.
C29_EmptyMeasurementDefined ==
    [][(EndsEmpty /\ ReductionStep) =>
         /\ rcm' = <<>> /\ rcs' = <<>> /\ rcl' = <<>>
         /\ hndPc' = "get"
         /\ internal_meas_done_event']_vars

\* Direct arithmetic on the accumulated cycles ys, for pixel p: the sum over
\* i = 1..Len(ys) of y_i ("y"), of y_i^2 ("yy") or of (i-1)*y_i ("xy").
Term(k, i, y) ==
    IF k = "y" THEN y ELSE IF k = "yy" THEN y * y ELSE (i - 1) * y

RECURSIVE DirectSum(_, _, _)
DirectSum(ys, p, k) ==
    IF ys = <<>> THEN 0
    ELSE DirectSum(SubSeq(ys, 1, Len(ys) - 1), p, k) + Term(k, Len(ys), ys[Len(ys)][p])

\* Every cycle read since the reset was accumulated.
AllAccepted == ncy_read = Len(hist.ys) /\ ncy_handled = Len(hist.ys)

\* The cycle that the reduction thread is about to handle completes the
\* measurement.
Completes ==
    /\ hndPc = "cycle"
    /\ LET a == handle_cycle_data(ncy_read + 1, hnd.rc[hnd.i])
       IN  /\ ~a.raised
           /\ ~Rejected(a.issat, a.data_ok)
           /\ MeasurementComplete(a.ncy_handled)

C31_RecoveryLadder ==
    \A k \in 1..Len(rec.calls) :
       LET i == rec.calls[k][1]
           name == rec.calls[k][2]
           first == k = 1
           prev == IF first THEN <<0 - 1, "none">> ELSE rec.calls[k - 1]
       IN  /\ i >= 0 /\ i < rec.ntry
           /\ name \in {"abort_ok", "abort_fail"} =>
                 /\ ~(i = 0 /\ rec.dofree)
                 /\ IF first THEN i = 0 ELSE prev = <<i - 1, "connect_fail">>
           /\ name \in {"set_it_ok", "set_it_fail"} => prev = <<i, "abort_ok">>
           /\ name = "disconnect" =>
                 \/ first /\ i = 0 /\ rec.dofree
                 \/ prev \in {<<i, "abort_fail">>, <<i, "set_it_fail">>}
           /\ name \in {"connect_ok", "connect_fail"} => prev = <<i, "disconnect">>
           /\ name \in {"set_it_ok", "connect_ok"} => k = Len(rec.calls)

\* A recovery of three passes has failed softly twice in different ways and
\* has ended with a successful soft part in its third pass.
C31_Witness ==
    /\ rec.pc = "done"
    /\ rec.res = "OK"
    /\ rec.ntry = MaxTry
    /\ \E k \in 1..Len(rec.calls) : rec.calls[k] = <<0, "abort_fail">>
    /\ \E k \in 1..Len(rec.calls) : rec.calls[k] = <<1, "set_it_fail">>
    /\ rec.calls[Len(rec.calls)] = <<2, "set_it_ok">>

\* C32 (both revisions of compute_st_pulses): for every requested time, the
\* values returned satisfy line_cycle = high_period + low_period with
\* low_period at least the minimum low period of the camera (so that
\* high_period <= line_cycle - tlp_st_min), and line_cycle is within the
\* minimum and maximum line period of camera and sensor.
C32_CameraConstraint ==
    tm.pc \in {"computed", "driver_computed"} =>
        /\ tm.line_cycle = tm.high_period + tm.low_period
        /\ tm.low_period >= cameras.tlp_st_min
        /\ tm.high_period <= tm.line_cycle - cameras.tlp_st_min
        /\ tm.line_cycle >= cameras.tpi_st_min
        /\ tm.line_cycle >= detectors.tpi_st_min
        /\ tm.line_cycle <= cameras.tpi_st_max

\* C33 (set_it of both revisions, called when an integration time has been
\* set before): the register writes sent are a beginning of <<preliminary
\* minimum high period, line cycle, final high period>>; no write follows a
\* refused one; after every accepted write the high period held by the
\* device is no longer than its line cycle; and it_ms changes only in a call
\* whose three writes were accepted.
C33_SetItSequence ==
    [][(tm' # tm /\ tm'.pc = "set" /\ it_ms # <<>>) =>
         /\ \E n \in 0..3 :
               tm'.writes = SubSeq(<< <<"StartPulseTime", cameras.thp_st_min>>,
                                      <<"LineTime", tm'.tpi_st>>,
                                      <<"StartPulseTime", tm'.thp_st>> >>, 1, n)
         /\ Len(tm'.writes) <= tm'.accepted + 1
         /\ \A k \in 1..Len(tm'.trail) : tm'.trail[k].thp <= tm'.trail[k].tpi
         /\ it_ms' # it_ms => tm'.accepted = 3]_vars

\* A set_it whose writes were all accepted has replaced a long integration
\* time by a shorter one.
C33_Witness ==
    /\ tm.pc = "set"
    /\ tm.has_prev
    /\ tm.prev_it = 2 * (Pow2(RegBits) + 2 * detectors.it_offset_clk)
    /\ tm.it = min_it_ms + 2
    /\ tm.accepted = 3
    /\ Len(tm.trail) = 3
    /\ it_ms = <<min_it_ms + 2>>

\* The capture thread leaves measure_blocking.
MeasureBlockingEnds == arrPc = "mb_final" /\ arrPc' = "get"

C35_CounterOrder ==
    [][/\ 0 <= ncy_saturated' /\ ncy_saturated' <= ncy_handled'
       /\ ncy_handled' <= ncy_read' /\ ncy_read' <= ncy_requested'
       /\ abort_on_saturation' => ncy_saturated' = 0
       /\ (Completes /\ ReductionStep) =>
             ncy_handled' = ncy_requested' /\ ncy_read' = ncy_requested']_vars

\* C36: once measure() has been called while the request in the capture loop
\* was cancelled (by abort() or by a rejected cycle), and until the next
\* request is started, no capture call is made, no cycle of a pack of the
\* cancelled request is accumulated, and, when that measure() has cleared the
\* completion event, the capture thread does not start waiting for it.
C36_MeasureDoesNotRevive ==
    [][hist.remeasured =>
         /\ ~CaptureCalled
         /\ (CycleHandled /\ hnd.cur.req = hist.req) => ncy_handled' = ncy_handled
         /\ hist.cleared => ~(arrPc # "mb_blocked" /\ arrPc' = "mb_blocked")]_vars

\* C37: a request that was in read_data_queue when abort() was called (no
\* measure() having been called since) is cancelled: once the capture thread
\* has taken it from the queue, no capture call is made for it.
C37_AbortCancelsQueued ==
    [][hist.precancelled => ~CaptureCalled]_vars

\* A request is queued, or the capture thread is inside measure_blocking
\* (which ends after the reduction of the request).
RequestPending ==
    \/ \E i \in 1..Len(read_data_queue) : read_data_queue[i] # NoneVal
    \/ arrPc \in {"mb_init", "loop", "wait_data", "mb_blocked", "mb_final"}

\* C38: in every reachable state in which a request is queued, being
\* captured or being reduced, measuring is True.
C38_MeasuringWhilePending ==
    RequestPending => measuring

\* C39: the loop of split_cycles ends for every input: while it runs, the
\* cycles left are positive and, each iteration taking at least one cycle,
\* no more than the total less the iterations made, so that it ends within
\* total iterations.
C39_SplitTerminates ==
    sp.pc \in {"loop", "done"} =>
        /\ Len(sp.st.packs) <= (IF sp.total > 0 THEN sp.total ELSE 0)
        /\ sp.pc = "loop" =>
              /\ sp.st.ncy > 0
              /\ sp.st.ncy + Len(sp.st.packs) <= sp.total

\* C40 (both revisions of connect): when the device search of connect() has
\* ended and the device with the configured serial number is among the
\* devices enumerated and answers, the search has ended "OK" with that
\* device connected, whatever the other devices answered.
C40_ProbeFailureIgnored ==
    probe.pc = "done" =>
        \A k \in 1..Len(probe.devs) :
           (probe.devs[k].sn = "sn" /\ probe.devs[k].answer = "ok") =>
               /\ probe.res = "OK"
               /\ probe.dev_index = k - 1
====
